---- MODULE Spec2Model ----
(***************************************************************************)
(* The payroll engine of src/payroll_engine.py (NigerianPayrollEngine).    *)
(*                                                                         *)
(* Amounts are decimal.Decimal values.  A Decimal is modelled by its       *)
(* value: a sign, a coefficient and an exponent.  The coefficient is a     *)
(* natural number of any size, held as a sequence of limbs of four decimal *)
(* digits, least significant limb first, so that the 28-digit context      *)
(* precision of the decimal module (and with it the inexact proration      *)
(* factor days_worked/total_days) is modelled digit for digit.  Values are *)
(* kept normalised (no trailing zeros in the coefficient, one zero), so    *)
(* that equality of records is equality of Decimal values, as              *)
(* Decimal.__eq__ is.                                                      *)
(***************************************************************************)
EXTENDS Integers, Sequences, FiniteSets, TLC

(***************************************************************************)
(* Natural numbers of any size: sequences of limbs in 0..9999, lowest      *)
(* first, without high zero limbs; << >> is zero.                          *)
(***************************************************************************)
RECURSIVE NatOfInt(_)
NatOfInt(n) ==
    IF n = 0 THEN <<>> ELSE <<n % 10000>> \o NatOfInt(n \div 10000)

Limb(a, i) ==
    IF i >= 1 /\ i <= Len(a) THEN a[i] ELSE 0

\* 10^k for k in 0..4
Pow10(k) ==
    <<1, 10, 100, 1000, 10000>>[k + 1]

RECURSIVE NatStrip(_)
NatStrip(a) ==
    IF a = <<>> THEN a
    ELSE IF a[Len(a)] = 0 THEN NatStrip(SubSeq(a, 1, Len(a) - 1))
    ELSE a

RECURSIVE NatAddFrom(_, _, _, _)
NatAddFrom(a, b, i, carry) ==
    IF i > Len(a) /\ i > Len(b)
    THEN (IF carry = 0 THEN <<>> ELSE <<carry>>)
    ELSE LET s == Limb(a, i) + Limb(b, i) + carry
         IN  <<s % 10000>> \o NatAddFrom(a, b, i + 1, s \div 10000)

NatAdd(a, b) ==
    NatAddFrom(a, b, 1, 0)

RECURSIVE NatSubFrom(_, _, _, _)
NatSubFrom(a, b, i, borrow) ==
    IF i > Len(a) THEN <<>>
    ELSE LET d == a[i] - Limb(b, i) - borrow
         IN  IF d < 0 THEN <<d + 10000>> \o NatSubFrom(a, b, i + 1, 1)
             ELSE <<d>> \o NatSubFrom(a, b, i + 1, 0)

\* a - b, for a >= b
NatSub(a, b) ==
    NatStrip(NatSubFrom(a, b, 1, 0))

RECURSIVE NatCmpFrom(_, _, _)
NatCmpFrom(a, b, i) ==
    IF i = 0 THEN 0
    ELSE IF a[i] # b[i] THEN (IF a[i] < b[i] THEN -1 ELSE 1)
    ELSE NatCmpFrom(a, b, i - 1)

\* -1, 0 or 1 as a < b, a = b or a > b
NatCmp(a, b) ==
    IF Len(a) # Len(b) THEN (IF Len(a) < Len(b) THEN -1 ELSE 1)
    ELSE NatCmpFrom(a, b, Len(a))

RECURSIVE NatMulLimbFrom(_, _, _, _)
NatMulLimbFrom(a, m, i, carry) ==
    IF i > Len(a) THEN NatOfInt(carry)
    ELSE LET p == a[i] * m + carry
         IN  <<p % 10000>> \o NatMulLimbFrom(a, m, i + 1, p \div 10000)

\* a * m, for an integer 0 <= m <= 10000
NatMulLimb(a, m) ==
    IF m = 0 \/ a = <<>> THEN <<>> ELSE NatMulLimbFrom(a, m, 1, 0)

\* a * 10000^k
NatShiftLimbs(a, k) ==
    IF a = <<>> \/ k = 0 THEN a ELSE [i \in 1..k |-> 0] \o a

\* a * 10^k
NatMulPow10(a, k) ==
    NatShiftLimbs(NatMulLimb(a, Pow10(k % 4)), k \div 4)

RECURSIVE NatMulFrom(_, _, _)
NatMulFrom(a, b, i) ==
    IF i > Len(b) THEN <<>>
    ELSE NatAdd(NatShiftLimbs(NatMulLimb(a, b[i]), i - 1), NatMulFrom(a, b, i + 1))

NatMul(a, b) ==
    IF Len(a) >= Len(b) THEN NatMulFrom(a, b, 1) ELSE NatMulFrom(b, a, 1)

RECURSIVE NatDivFrom(_, _, _, _)
\* long division of the limbs a[i..1] by m with incoming remainder rem
NatDivFrom(a, m, i, rem) ==
    IF i = 0 THEN [q |-> <<>>, r |-> rem]
    ELSE LET cur  == rem * 10000 + a[i]
             rest == NatDivFrom(a, m, i - 1, cur % m)
         IN  [q |-> rest.q \o <<cur \div m>>, r |-> rest.r]

\* divmod(a, m), for an integer 0 < m < 200000
NatDivMod(a, m) ==
    LET d == NatDivFrom(a, m, Len(a), 0)
    IN  [q |-> NatStrip(d.q), r |-> d.r]

\* the integer a, for a < 10^8
NatToInt(a) ==
    Limb(a, 1) + 10000 * Limb(a, 2)

\* the number of decimal digits of a
NatDigits(a) ==
    IF a = <<>> THEN 0
    ELSE LET t == a[Len(a)]
         IN  4 * (Len(a) - 1)
               + (IF t >= 1000 THEN 4 ELSE IF t >= 100 THEN 3 ELSE IF t >= 10 THEN 2 ELSE 1)

\* the number of zero decimal digits at the low end of a # 0
NatLowZeros(a) ==
    LET z == CHOOSE i \in 1..Len(a) : a[i] # 0 /\ \A j \in 1..(i - 1) : a[j] = 0
        t == a[z]
    IN  4 * (z - 1)
          + (IF t % 1000 = 0 THEN 3 ELSE IF t % 100 = 0 THEN 2 ELSE IF t % 10 = 0 THEN 1 ELSE 0)

\* a with its k >= 1 lowest decimal digits rounded away
NatRound(a, k, rounding) ==
    LET n    == k \div 4
        b    == k % 4
        hi   == IF n >= Len(a) THEN <<>> ELSE SubSeq(a, n + 1, Len(a))
        dm   == IF b = 0 THEN [q |-> hi, r |-> 0] ELSE NatDivMod(hi, Pow10(b))
        low(j) == \E i \in 1..j : Limb(a, i) # 0
        \* the digits rounded away against half a unit of the last digit kept
        half == IF b = 0
                THEN (IF Limb(a, n) > 5000 THEN 1
                      ELSE IF Limb(a, n) < 5000 THEN -1
                      ELSE IF low(n - 1) THEN 1 ELSE 0)
                ELSE (IF dm.r > 5 * Pow10(b - 1) THEN 1
                      ELSE IF dm.r < 5 * Pow10(b - 1) THEN -1
                      ELSE IF low(n) THEN 1 ELSE 0)
        up   == IF rounding = "ROUND_HALF_UP" THEN half >= 0
                ELSE half > 0 \/ (half = 0 /\ Limb(dm.q, 1) % 2 = 1)
    IN  IF up THEN NatAdd(dm.q, <<1>>) ELSE dm.q

(***************************************************************************)
(* decimal.Decimal under the default context: precision 28,                *)
(* ROUND_HALF_EVEN.  Every arithmetic result is the exact result rounded   *)
(* to Prec significant digits.                                             *)
(***************************************************************************)
Prec == 28

DecZero ==
    [neg |-> FALSE, c |-> <<>>, e |-> 0]

\* the Decimal (-1)^neg * c * 10^e, normalised
DecNorm(neg, c, e) ==
    IF c = <<>> THEN DecZero
    ELSE LET z == NatLowZeros(c)
             s == IF z \div 4 = 0 THEN c ELSE SubSeq(c, z \div 4 + 1, Len(c))
         IN  [neg |-> neg,
              c   |-> IF z % 4 = 0 THEN s ELSE NatDivMod(s, Pow10(z % 4)).q,
              e   |-> e + z]

\* Decimal._fix: round the exact result to the context precision
DecFix(neg, c, e) ==
    IF NatDigits(c) <= Prec THEN DecNorm(neg, c, e)
    ELSE LET k == NatDigits(c) - Prec
         IN  DecNorm(neg, NatRound(c, k, "ROUND_HALF_EVEN"), e + k)

\* Decimal('n E e') for an integer n
Dec(n, e) ==
    DecNorm(n < 0, NatOfInt(IF n < 0 THEN -n ELSE n), e)

\* Decimal(n) for an integer n
DecOfInt(n) ==
    Dec(n, 0)

DecNeg(a) ==
    IF a = DecZero THEN a ELSE [a EXCEPT !.neg = ~a.neg]

\* the exact sum a + b, not yet rounded
DecExactAdd(a, b) ==
    LET e   == IF a.e < b.e THEN a.e ELSE b.e
        ca  == NatMulPow10(a.c, a.e - e)
        cb  == NatMulPow10(b.c, b.e - e)
        cmp == NatCmp(ca, cb)
    IN  IF a.neg = b.neg THEN [neg |-> a.neg, c |-> NatAdd(ca, cb), e |-> e]
        ELSE IF cmp = 0 THEN DecZero
        ELSE IF cmp > 0 THEN [neg |-> a.neg, c |-> NatSub(ca, cb), e |-> e]
        ELSE [neg |-> b.neg, c |-> NatSub(cb, ca), e |-> e]

DecAdd(a, b) ==
    IF a = DecZero THEN b
    ELSE IF b = DecZero THEN a
    ELSE LET x == DecExactAdd(a, b) IN DecFix(x.neg, x.c, x.e)

DecSub(a, b) ==
    DecAdd(a, DecNeg(b))

DecMul(a, b) ==
    DecFix(a.neg # b.neg, NatMul(a.c, b.c), a.e + b.e)

\* a < b
DecLt(a, b) ==
    IF a.neg # b.neg THEN a.neg
    ELSE LET x == DecExactAdd(a, DecNeg(b)) IN x.c # <<>> /\ x.neg

\* a <= b
DecLe(a, b) ==
    ~DecLt(b, a)

\* min(a, b)
DecMin(a, b) ==
    IF DecLt(b, a) THEN b ELSE a

\* a / b for b # 0 with a coefficient below 200000: the quotient to Prec + 1
\* digits, made inexact in its last digit when a remainder is left, then rounded
DecDiv(a, b) ==
    LET shift == NatDigits(b.c) - NatDigits(a.c) + Prec + 1
        dm    == NatDivMod(NatMulPow10(a.c, shift), NatToInt(b.c))
        coeff == IF dm.r # 0 /\ Limb(dm.q, 1) % 5 = 0
                 THEN NatAdd(dm.q, <<1>>) ELSE dm.q
    IN  DecFix(a.neg # b.neg, coeff, a.e - b.e - shift)

\* a.quantize(p, rounding=ROUND_HALF_UP): a rounded to the exponent of p
DecQuantize(a, p) ==
    IF a.e >= p.e THEN a
    ELSE DecNorm(a.neg, NatRound(a.c, p.e - a.e, "ROUND_HALF_UP"), p.e)

(***************************************************************************)
(* The engine and one call of calculate_payroll.  The call runs the ten    *)
(* numbered steps of the method in order; its local variables are the      *)
(* fields of the record locals.  The remaining variables are what the      *)
(* engine and the message handlers of conversation.py read besides their   *)
(* arguments: the system clock and the rows of the database.               *)
(***************************************************************************)
VARIABLES
    calculation_precision,  \* NigerianPayrollEngine.calculation_precision
    salary_structure,       \* the EmployeeSalaryStructure passed to the call
    period_start,           \* the period_start passed to the call
    period_end,             \* the period_end passed to the call
    locals,                 \* the local variables of calculate_payroll assigned so far
    result,                 \* the PayrollResult returned, NoResult before
    pc,                     \* the step of calculate_payroll to run next, or how it ended
    clock,                  \* datetime.now(), in minutes
    payslips,               \* the texts generate_payslip has returned, in order
    message,                \* the text of the message handle_message was last given
    reply,                  \* the response handle_message returned to it
    company,                \* the Company row of the phone, None before registration
    user,                   \* the User row of the phone, None before registration
    employees,              \* the active Employee rows of the company, in order
    payroll_runs,           \* the PayrollRun rows, in order of creation
    audit_log,              \* the actions of the AuditLog rows written so far
    conv                    \* the ConversationState row of the phone, None before the first

\* what lies outside the engine object and one call of calculate_payroll
Outside == <<clock, payslips, message, reply, company, user, employees,
             payroll_runs, audit_log, conv>>

vars == <<calculation_precision, salary_structure, period_start, period_end,
          locals, result, pc, Outside>>

\* Optional[int]: None is the empty sequence and the integer d is <<d>>
None == <<>>

Some(d) == <<d>>

\* the integer held by an Optional[int] that is not None
Value(o) == o[1]

NoResult == [calculation_notes |-> <<>>]

(***************************************************************************)
(* Class constants of NigerianPayrollEngine.                               *)
(***************************************************************************)
TAX_BRACKETS ==
    << <<Dec(800000, 0),    Dec(0, 0)>>,
       <<Dec(2200000, 0),   Dec(15, -2)>>,
       <<Dec(9000000, 0),   Dec(18, -2)>>,
       <<Dec(13000000, 0),  Dec(21, -2)>>,
       <<Dec(25000000, 0),  Dec(23, -2)>>,
       <<Dec(999999999, 0), Dec(25, -2)>> >>

RENT_RELIEF_RATE == Dec(20, -2)

RENT_RELIEF_CAP == Dec(500000, 0)

\* the employee's rate written as a percentage
PENSION_EMPLOYEE_RATE_in_percent == Dec(8, 0)

PENSION_EMPLOYEE_RATE == Dec(8, -2)

PENSION_EMPLOYER_RATE == Dec(10, -2)

NHF_RATE == Dec(25, -3)

NHF_MINIMUM_SALARY == Dec(3000, 0)

\* Decimal('12')
Twelve == Dec(12, 0)

(***************************************************************************)
(* The methods of NigerianPayrollEngine.                                   *)
(***************************************************************************)
\* _round_money with the context's rounding, ROUND_HALF_EVEN
_round_money_half_even(amount) ==
    IF amount.e >= calculation_precision.e THEN amount
    ELSE DecNorm(amount.neg,
                 NatRound(amount.c, calculation_precision.e - amount.e, "ROUND_HALF_EVEN"),
                 calculation_precision.e)

_round_money(amount) ==
    DecQuantize(amount, calculation_precision)

\* Decimal(days_worked) / Decimal(total_days)
proration_factor(ss) ==
    DecDiv(DecOfInt(Value(ss.days_worked)), DecOfInt(ss.total_days))

\* the guard of the prorations comparing with # where the code has <
ProrationApplies_whenever_different(ss) ==
    /\ ss.days_worked # None
    /\ Value(ss.days_worked) # 0
    /\ Value(ss.days_worked) # ss.total_days

\* "if salary_structure.days_worked and days_worked < total_days": None and 0
\* are both false
ProrationApplies(ss) ==
    /\ ss.days_worked # None
    /\ Value(ss.days_worked) # 0
    /\ Value(ss.days_worked) < ss.total_days

\* the sum of the eight earning fields, added left to right
EarningsSum(ss) ==
    DecAdd(DecAdd(DecAdd(DecAdd(DecAdd(DecAdd(DecAdd(
        ss.basic_salary, ss.housing_allowance), ss.transport_allowance),
        ss.meal_allowance), ss.utility_allowance), ss.other_allowances),
        ss.bonus), ss.overtime)

\* calculate_gross_salary returning the amount without _round_money
calculate_gross_salary_unrounded(ss) ==
    IF ProrationApplies(ss)
    THEN DecMul(EarningsSum(ss), proration_factor(ss))
    ELSE EarningsSum(ss)

calculate_gross_salary(ss) ==
    _round_money(IF ProrationApplies(ss)
                 THEN DecMul(EarningsSum(ss), proration_factor(ss))
                 ELSE EarningsSum(ss))

calculate_pensionable_income(ss) ==
    _round_money(IF ProrationApplies(ss)
                 THEN DecMul(DecAdd(DecAdd(ss.basic_salary, ss.housing_allowance),
                                    ss.transport_allowance),
                             proration_factor(ss))
                 ELSE DecAdd(DecAdd(ss.basic_salary, ss.housing_allowance),
                             ss.transport_allowance))

calculate_pension_contribution(pensionable_income, rate) ==
    _round_money(DecMul(pensionable_income, rate))

calculate_nhf_contribution(basic_salary, is_prorated) ==
    IF DecLt(basic_salary, NHF_MINIMUM_SALARY) THEN DecZero
    ELSE _round_money(DecMul(basic_salary, NHF_RATE))

\* calculate_rent_relief without the min against RENT_RELIEF_CAP
calculate_rent_relief_uncapped(gross_annual) ==
    DecMul(gross_annual, RENT_RELIEF_RATE)

calculate_rent_relief(gross_annual) ==
    DecMin(DecMul(gross_annual, RENT_RELIEF_RATE), RENT_RELIEF_CAP)

RECURSIVE PayeBrackets_reversed(_, _, _)
\* the loop of calculate_annual_paye going through TAX_BRACKETS from the last
\* bracket to the first
PayeBrackets_reversed(remaining_income, total_tax, i) ==
    IF i > Len(TAX_BRACKETS) \/ DecLe(remaining_income, DecZero) THEN total_tax
    ELSE LET taxable_in_bracket ==
                 DecMin(remaining_income, TAX_BRACKETS[Len(TAX_BRACKETS) + 1 - i][1])
         IN  PayeBrackets_reversed(
                 DecSub(remaining_income, taxable_in_bracket),
                 DecAdd(total_tax,
                        DecMul(taxable_in_bracket,
                               TAX_BRACKETS[Len(TAX_BRACKETS) + 1 - i][2])),
                 i + 1)

RECURSIVE PayeBrackets_without_consuming(_, _, _)
\* the loop of calculate_annual_paye without "remaining_income -= taxable_in_bracket"
PayeBrackets_without_consuming(remaining_income, total_tax, i) ==
    IF i > Len(TAX_BRACKETS) \/ DecLe(remaining_income, DecZero) THEN total_tax
    ELSE PayeBrackets_without_consuming(
             remaining_income,
             DecAdd(total_tax,
                    DecMul(DecMin(remaining_income, TAX_BRACKETS[i][1]),
                           TAX_BRACKETS[i][2])),
             i + 1)

RECURSIVE PayeBrackets(_, _, _)
\* the loop of calculate_annual_paye from bracket i on
PayeBrackets(remaining_income, total_tax, i) ==
    IF i > Len(TAX_BRACKETS) \/ DecLe(remaining_income, DecZero) THEN total_tax
    ELSE LET taxable_in_bracket == DecMin(remaining_income, TAX_BRACKETS[i][1])
         IN  PayeBrackets(DecSub(remaining_income, taxable_in_bracket),
                          DecAdd(total_tax, DecMul(taxable_in_bracket, TAX_BRACKETS[i][2])),
                          i + 1)

calculate_annual_paye(taxable_income_annual) ==
    _round_money(PayeBrackets(taxable_income_annual, DecZero, 1))

\* the entries of calculation_notes: the text and the values formatted into it
NoteProrated(ss) ==
    <<"Prorated for {days_worked}/{total_days} days",
      <<Value(ss.days_worked), ss.total_days>> >>

NoteNhf ==
    <<"NHF not applicable (basic < {NHF_MINIMUM_SALARY})", <<>> >>

NoteTaxableZero ==
    <<"Taxable income is zero after deductions", <<>> >>

NoteNoPaye ==
    <<"No PAYE tax (below threshold or fully relieved)", <<>> >>

\* Decimal division raises DivisionByZero for a zero divisor: the first
\* proration of a call with total_days = 0 ends the call
RaisesDivisionByZero(ss) ==
    ProrationApplies(ss) /\ ss.total_days = 0

(***************************************************************************)
(* The steps of calculate_payroll.  Each gives the local variables after   *)
(* the step, from the salary structure ss and the local variables f before *)
(* it.                                                                     *)
(***************************************************************************)
\* is_prorated comparing with <= where the code has <
IsProrated_inclusive(ss) ==
    ss.days_worked # None /\ Value(ss.days_worked) <= ss.total_days

IsProrated(ss) ==
    ss.days_worked # None /\ Value(ss.days_worked) < ss.total_days

\* step 1 recording the note only when calculate_gross_salary prorated
Step1_note_when_scaled(ss, f) ==
    [notes         |-> IF ProrationApplies(ss) THEN <<NoteProrated(ss)>> ELSE <<>>,
     gross_monthly |-> calculate_gross_salary(ss),
     is_prorated   |-> IsProrated(ss)]

\* notes = []; 1. gross salary; the check for proration
Step1(ss, f) ==
    [notes         |-> IF IsProrated(ss) THEN <<NoteProrated(ss)>> ELSE <<>>,
     gross_monthly |-> calculate_gross_salary(ss),
     is_prorated   |-> IsProrated(ss)]

\* step 2 annualising the prorated gross_monthly in both branches
Step2_from_gross_monthly(ss, f) ==
    [gross_annual |-> DecMul(f.gross_monthly, Twelve)] @@ f

\* 2. annual gross
Step2(ss, f) ==
    [gross_annual |->
        IF f.is_prorated THEN DecMul(_round_money(EarningsSum(ss)), Twelve)
        ELSE DecMul(f.gross_monthly, Twelve)] @@ f

\* step 3 taking no pensionable income for employment_type CONTRACT
Step3_contract_without_pension(ss, f) ==
    [pensionable_income |->
        IF ss.employment_type = "contract" THEN DecZero
        ELSE calculate_pensionable_income(ss)] @@ f

\* 3. pensionable income
Step3(ss, f) ==
    [pensionable_income |-> calculate_pensionable_income(ss)] @@ f

PensionEmployeeMonthly(f) ==
    calculate_pension_contribution(f.pensionable_income, PENSION_EMPLOYEE_RATE)

\* 4. pension contributions
Step4(ss, f) ==
    [pension_employee_monthly |-> PensionEmployeeMonthly(f),
     pension_employee_annual  |-> DecMul(PensionEmployeeMonthly(f), Twelve),
     pension_employer_monthly |->
        calculate_pension_contribution(f.pensionable_income, PENSION_EMPLOYER_RATE)] @@ f

\* basic_for_nhf left at the full-month basic salary
BasicForNhf_full_month(ss, f) ==
    ss.basic_salary

BasicForNhf(ss, f) ==
    IF f.is_prorated THEN DecMul(ss.basic_salary, proration_factor(ss))
    ELSE ss.basic_salary

NhfMonthly(ss, f) ==
    calculate_nhf_contribution(BasicForNhf(ss, f), f.is_prorated)

\* 5. NHF
Step5(ss, f) ==
    [basic_for_nhf |-> BasicForNhf(ss, f),
     nhf_monthly   |-> NhfMonthly(ss, f),
     nhf_annual    |-> DecMul(NhfMonthly(ss, f), Twelve),
     notes         |-> IF NhfMonthly(ss, f) = DecZero
                          /\ DecLt(BasicForNhf(ss, f), NHF_MINIMUM_SALARY)
                       THEN Append(f.notes, NoteNhf) ELSE f.notes] @@ f

\* step 6 taking the relief on the monthly gross
Step6_on_gross_monthly(ss, f) ==
    [rent_relief_annual |-> calculate_rent_relief(f.gross_monthly)] @@ f

\* 6. rent relief
Step6(ss, f) ==
    [rent_relief_annual |-> calculate_rent_relief(f.gross_annual)] @@ f

\* gross_annual - pension_employee_annual - nhf_annual - rent_relief_annual
TaxableBeforeFloor(f) ==
    DecSub(DecSub(DecSub(f.gross_annual, f.pension_employee_annual), f.nhf_annual),
           f.rent_relief_annual)

\* step 7 without the "if taxable_income_annual < 0" branch
Step7_without_floor(ss, f) ==
    [taxable_income_annual |-> TaxableBeforeFloor(f)] @@ f

\* 7. taxable income, not negative
Step7(ss, f) ==
    IF DecLt(TaxableBeforeFloor(f), DecZero)
    THEN [taxable_income_annual |-> DecZero,
          notes |-> Append(f.notes, NoteTaxableZero)] @@ f
    ELSE [taxable_income_annual |-> TaxableBeforeFloor(f)] @@ f

\* paye_monthly without the proration
PayeMonthly_unprorated(ss, f) ==
    _round_money(DecDiv(calculate_annual_paye(f.taxable_income_annual), Twelve))

\* paye_monthly rounded once, after the proration
PayeMonthly_rounded_once(ss, f) ==
    IF f.is_prorated
    THEN _round_money(DecMul(
            DecDiv(calculate_annual_paye(f.taxable_income_annual), Twelve),
            proration_factor(ss)))
    ELSE _round_money(DecDiv(calculate_annual_paye(f.taxable_income_annual), Twelve))

PayeMonthly(ss, f) ==
    IF f.is_prorated
    THEN _round_money(DecMul(
            _round_money(DecDiv(calculate_annual_paye(f.taxable_income_annual), Twelve)),
            proration_factor(ss)))
    ELSE _round_money(DecDiv(calculate_annual_paye(f.taxable_income_annual), Twelve))

\* 8. PAYE
Step8(ss, f) ==
    [paye_annual  |-> calculate_annual_paye(f.taxable_income_annual),
     paye_monthly |-> PayeMonthly(ss, f),
     notes        |-> IF PayeMonthly(ss, f) = DecZero
                      THEN Append(f.notes, NoteNoPaye) ELSE f.notes] @@ f

\* step 9 adding the employer's pension contribution as well
Step9_with_employer_pension(ss, f) ==
    [total_deductions |->
        DecAdd(DecAdd(DecAdd(DecAdd(DecAdd(f.pension_employee_monthly,
            f.pension_employer_monthly), f.nhf_monthly),
            f.paye_monthly), ss.loan_repayment), ss.other_deductions)] @@ f

\* 9. total deductions
Step9(ss, f) ==
    [total_deductions |->
        DecAdd(DecAdd(DecAdd(DecAdd(f.pension_employee_monthly, f.nhf_monthly),
            f.paye_monthly), ss.loan_repayment), ss.other_deductions)] @@ f

\* step 10 with the net salary floored at zero
Step10_floored(ss, f) ==
    [net_salary |->
        IF DecLt(f.gross_monthly, f.total_deductions) THEN DecZero
        ELSE DecSub(f.gross_monthly, f.total_deductions)] @@ f

\* 10. net salary
Step10(ss, f) ==
    [net_salary |-> DecSub(f.gross_monthly, f.total_deductions)] @@ f

\* return PayrollResult(...)
PayrollResult(ss, start, end, f) ==
    [employee_id         |-> ss.employee_id,
     employee_name       |-> ss.employee_name,
     period_start        |-> start,
     period_end          |-> end,
     basic_salary        |-> _round_money(ss.basic_salary),
     housing_allowance   |-> _round_money(ss.housing_allowance),
     transport_allowance |-> _round_money(ss.transport_allowance),
     meal_allowance      |-> _round_money(ss.meal_allowance),
     utility_allowance   |-> _round_money(ss.utility_allowance),
     other_allowances    |-> _round_money(ss.other_allowances),
     bonus               |-> _round_money(ss.bonus),
     overtime            |-> _round_money(ss.overtime),
     gross_salary        |-> f.gross_monthly,
     pension_employee    |-> f.pension_employee_monthly,
     pension_employer    |-> f.pension_employer_monthly,
     nhf                 |-> f.nhf_monthly,
     paye                |-> f.paye_monthly,
     loan_repayment      |-> ss.loan_repayment,
     other_deductions    |-> ss.other_deductions,
     total_deductions    |-> f.total_deductions,
     net_salary          |-> f.net_salary,
     annual_gross        |-> f.gross_annual,
     rent_relief         |-> f.rent_relief_annual,
     taxable_income      |-> f.taxable_income_annual,
     annual_paye         |-> f.paye_annual,
     is_prorated         |-> f.is_prorated,
     calculation_notes   |-> f.notes]

\* the local variables of a call after step n
RECURSIVE LocalsAfter(_, _)
LocalsAfter(ss, n) ==
    IF n = 0 THEN <<>>
    ELSE LET f == LocalsAfter(ss, n - 1)
         IN  CASE n = 1 -> Step1(ss, f)
               [] n = 2 -> Step2(ss, f)
               [] n = 3 -> Step3(ss, f)
               [] n = 4 -> Step4(ss, f)
               [] n = 5 -> Step5(ss, f)
               [] n = 6 -> Step6(ss, f)
               [] n = 7 -> Step7(ss, f)
               [] n = 8 -> Step8(ss, f)
               [] n = 9 -> Step9(ss, f)
               [] n = 10 -> Step10(ss, f)

\* the value calculate_payroll returns when it does not raise
calculate_payroll(ss, start, end) ==
    PayrollResult(ss, start, end, LocalsAfter(ss, 10))

(***************************************************************************)
(* The inputs of a call.                                                   *)
(***************************************************************************)
\* the largest days_worked tried
MaxDaysWorked == 31

\* basic_salary, housing_allowance, transport_allowance
PensionableInputs ==
    { <<Dec(200000, 0),  Dec(100000, 0), Dec(50000, 0)>>,
      <<Dec(150000, 0),  Dec(75000, 0),  Dec(25000, 0)>>,
      <<Dec(2999, 0),    DecZero,        DecZero>>,
      <<Dec(3000, 0),    DecZero,        DecZero>>,
      <<Dec(22500, 0),   DecZero,        DecZero>>,
      <<Dec(3015, -2),   DecZero,        DecZero>>,
      <<Dec(1500000, 0), Dec(500000, 0), Dec(200000, 0)>>,
      <<Dec(15000037, -2), DecZero,        DecZero>>,
      <<Dec(7, -2),        DecZero,        DecZero>> }

\* meal_allowance, utility_allowance, other_allowances, bonus, overtime
OtherEarningInputs ==
    { <<DecZero, DecZero, DecZero, DecZero, DecZero>>,
      <<DecZero, DecZero, Dec(50000, 0), DecZero, DecZero>>,
      <<Dec(10000005, -3), Dec(5000, 0), DecZero, Dec(20000, 0), Dec(75005, -1)>>,
      <<Dec(-400000, 0), DecZero, DecZero, DecZero, DecZero>> }

\* loan_repayment, other_deductions
DeductionInputs ==
    { <<DecZero, DecZero>>,
      <<Dec(50000, 0), Dec(1234567, -3)>> }

DaysWorkedInputs ==
    {None} \cup {Some(d) : d \in {-3, 0, 4, 7, 17} \cup (30..MaxDaysWorked)}

TotalDaysInputs == {0, 30, 31}

\* employee_id, employee_name, employment_type
EmployeeInputs ==
    { <<"EMP001", "Ngozi Adeyemi", "full-time">>,
      <<"EMP002", "Chidi Okafor", "contract">> }

\* period_start, period_end
PeriodInputs ==
    { <<"2026-01-01", "2026-01-31">>,
      <<"2026-02-01", "2026-02-28">> }

\* EmployeeSalaryStructure(...)
EmployeeSalaryStructure(who, p, o, d, days, total) ==
    [employee_id         |-> who[1],
     employee_name       |-> who[2],
     basic_salary        |-> p[1],
     housing_allowance   |-> p[2],
     transport_allowance |-> p[3],
     meal_allowance      |-> o[1],
     utility_allowance   |-> o[2],
     other_allowances    |-> o[3],
     bonus               |-> o[4],
     overtime            |-> o[5],
     loan_repayment      |-> d[1],
     other_deductions    |-> d[2],
     employment_type     |-> who[3],
     days_worked         |-> days,
     total_days          |-> total]

SalaryStructures ==
    { EmployeeSalaryStructure(who, p, o, d, days, total) :
        who \in EmployeeInputs, p \in PensionableInputs, o \in OtherEarningInputs,
        d \in DeductionInputs, days \in DaysWorkedInputs, total \in TotalDaysInputs }

(***************************************************************************)
(* The state machine: an engine is constructed and a caller holds a salary *)
(* structure and a period; calculate_payroll runs its steps and returns a  *)
(* result, or raises in its first step.                                    *)
(***************************************************************************)
\* the response before any message
NoReply == [kind |-> "none"]

\* no message handled, no payslip generated, an empty database
OutsideIdle ==
    /\ clock = 0
    /\ payslips = <<>>
    /\ message = ""
    /\ reply = NoReply
    /\ company = None
    /\ user = None
    /\ employees = <<>>
    /\ payroll_runs = <<>>
    /\ audit_log = {}
    /\ conv = None

Init ==
    /\ calculation_precision = Dec(1, -2)
    /\ salary_structure \in SalaryStructures
    /\ \E period \in PeriodInputs :
          period_start = period[1] /\ period_end = period[2]
    /\ locals = <<>>
    /\ result = NoResult
    /\ pc = "step1"
    /\ OutsideIdle

Frame == <<calculation_precision, salary_structure, period_start, period_end, result,
           Outside>>

Raise ==
    /\ pc = "step1"
    /\ RaisesDivisionByZero(salary_structure)
    /\ pc' = "raised"
    /\ UNCHANGED <<locals, Frame>>

Run1 ==
    /\ pc = "step1"
    /\ ~RaisesDivisionByZero(salary_structure)
    /\ locals' = Step1(salary_structure, locals)
    /\ pc' = "step2"
    /\ UNCHANGED Frame

Run2 ==
    /\ pc = "step2"
    /\ locals' = Step2(salary_structure, locals)
    /\ pc' = "step3"
    /\ UNCHANGED Frame

Run3 ==
    /\ pc = "step3"
    /\ locals' = Step3(salary_structure, locals)
    /\ pc' = "step4"
    /\ UNCHANGED Frame

Run4 ==
    /\ pc = "step4"
    /\ locals' = Step4(salary_structure, locals)
    /\ pc' = "step5"
    /\ UNCHANGED Frame

Run5 ==
    /\ pc = "step5"
    /\ locals' = Step5(salary_structure, locals)
    /\ pc' = "step6"
    /\ UNCHANGED Frame

Run6 ==
    /\ pc = "step6"
    /\ locals' = Step6(salary_structure, locals)
    /\ pc' = "step7"
    /\ UNCHANGED Frame

Run7 ==
    /\ pc = "step7"
    /\ locals' = Step7(salary_structure, locals)
    /\ pc' = "step8"
    /\ UNCHANGED Frame

Run8 ==
    /\ pc = "step8"
    /\ locals' = Step8(salary_structure, locals)
    /\ pc' = "step9"
    /\ UNCHANGED Frame

Run9 ==
    /\ pc = "step9"
    /\ locals' = Step9(salary_structure, locals)
    /\ pc' = "step10"
    /\ UNCHANGED Frame

Run10 ==
    /\ pc = "step10"
    /\ locals' = Step10(salary_structure, locals)
    /\ pc' = "return"
    /\ UNCHANGED Frame

Return ==
    /\ pc = "return"
    /\ result' = PayrollResult(salary_structure, period_start, period_end, locals)
    /\ pc' = "returned"
    /\ UNCHANGED <<calculation_precision, salary_structure, period_start, period_end, locals,
                   Outside>>

Next ==
    \/ Raise
    \/ Run1 \/ Run2 \/ Run3 \/ Run4 \/ Run5
    \/ Run6 \/ Run7 \/ Run8 \/ Run9 \/ Run10
    \/ Return

Spec == Init /\ [][Next]_vars

(***************************************************************************)
(* Properties of a call that has returned.  The amounts they name are      *)
(* computed here from the salary structure and the returned result in      *)
(* Decimal arithmetic, apart from the engine's methods.                    *)
(***************************************************************************)
Returned == pc = "returned"

\* rounding to two decimal places, half up
Round2(x) == DecQuantize(x, Dec(1, -2))

\* a - b with no rounding at all
ExactDifference(a, b) ==
    LET d == DecExactAdd(a, DecNeg(b)) IN DecNorm(d.neg, d.c, d.e)

\* the full-month sum of the eight earning components
SumOfEarnings(ss) ==
    DecAdd(DecAdd(DecAdd(ss.basic_salary, ss.housing_allowance),
                  DecAdd(ss.transport_allowance, ss.meal_allowance)),
           DecAdd(DecAdd(ss.utility_allowance, ss.other_allowances),
                  DecAdd(ss.bonus, ss.overtime)))

\* basic + housing + transport
SumOfPensionable(ss) ==
    DecAdd(ss.basic_salary, DecAdd(ss.housing_allowance, ss.transport_allowance))

\* days_worked / total_days by decimal division
DaysRatio(ss) ==
    DecDiv(DecOfInt(Value(ss.days_worked)), DecOfInt(ss.total_days))

DaysWorkedPresent(ss) == ss.days_worked # None

\* days_worked is present and less than total_days
DaysWorkedShort(ss) ==
    DaysWorkedPresent(ss) /\ Value(ss.days_worked) < ss.total_days

HasNote(notes, note) ==
    \E i \in 1..Len(notes) : notes[i] = note

\* C1: net_salary equals gross_salary - total_deductions exactly, with no
\* rounding and no floor: a call whose deductions exceed its gross returns
\* the negative difference.
C1_NetIsGrossMinusDeductions ==
    Returned =>
        result.net_salary = ExactDifference(result.gross_salary, result.total_deductions)

\* a returned call whose deductions exceed its gross, with a negative net
C1_NegativeNetReturned ==
    /\ Returned
    /\ DecLt(result.gross_salary, result.total_deductions)
    /\ DecLt(result.net_salary, DecZero)

\* C2: when days_worked is absent, gross_salary is the sum of the eight
\* earning components rounded half up to two decimal places.
C2_GrossIsRoundedSum ==
    (Returned /\ ~DaysWorkedPresent(salary_structure)) =>
        result.gross_salary = Round2(SumOfEarnings(salary_structure))

\* a returned call without days_worked whose sum has a fraction of a kobo,
\* so that the rounding changes it
C2_RoundingApplied ==
    /\ Returned
    /\ ~DaysWorkedPresent(salary_structure)
    /\ result.gross_salary # SumOfEarnings(salary_structure)
    /\ ~result.is_prorated

\* C3: whenever days_worked is present (any integer, 0 included) and less
\* than total_days, gross_salary is round2(sum of the eight earning
\* components x days_worked / total_days), the division being decimal.
C3_GrossIsProratedSum ==
    (Returned /\ DaysWorkedShort(salary_structure)) =>
        result.gross_salary =
            Round2(DecMul(SumOfEarnings(salary_structure), DaysRatio(salary_structure)))

\* the statement of C3 for every days_worked other than 0
C3_GrossIsProratedSumExceptZero ==
    (Returned /\ DaysWorkedShort(salary_structure)
              /\ Value(salary_structure.days_worked) # 0) =>
        result.gross_salary =
            Round2(DecMul(SumOfEarnings(salary_structure), DaysRatio(salary_structure)))

\* C4: annual_gross is 12 x round2(full-month sum of the eight earning
\* components) for every input; proration does not enter it.
C4_AnnualGrossIsTwelveFullMonths ==
    Returned =>
        result.annual_gross =
            DecMul(Dec(12, 0), Round2(SumOfEarnings(salary_structure)))

\* a returned prorated call whose gross_salary is not the full-month gross,
\* so that 12 x gross_salary is not the annual gross
C4_ProratedGrossDiffers ==
    /\ Returned
    /\ result.is_prorated
    /\ result.gross_salary # Round2(SumOfEarnings(salary_structure))
    /\ result.annual_gross # DecMul(Dec(12, 0), result.gross_salary)

\* the same call with days_worked absent
WithoutDaysWorked(ss) == [ss EXCEPT !.days_worked = None]

\* C5: taxable_income and annual_paye of a prorated call equal those of the
\* same call with days_worked absent: no annual figure is prorated.
C5_AnnualFiguresNotProrated ==
    (Returned /\ DaysWorkedShort(salary_structure)) =>
        /\ result.taxable_income =
              calculate_payroll(WithoutDaysWorked(salary_structure),
                                period_start, period_end).taxable_income
        /\ result.annual_paye =
              calculate_payroll(WithoutDaysWorked(salary_structure),
                                period_start, period_end).annual_paye

\* the proration factor of a returned call: days_worked / total_days when
\* the call is prorated, 1 otherwise
FactorOf(ss) ==
    IF DaysWorkedShort(ss) THEN DaysRatio(ss) ELSE Dec(1, 0)

\* C6: pensionable income is round2((basic + housing + transport) x
\* proration factor); pension_employee is round2(pensionable x 0.08) and
\* pension_employer is round2(pensionable x 0.10), whatever the other five
\* earning components are.
C6_PensionOnProratedPensionable ==
    Returned =>
        /\ result.pension_employee =
              Round2(DecMul(Round2(DecMul(SumOfPensionable(salary_structure),
                                          FactorOf(salary_structure))),
                            Dec(8, -2)))
        /\ result.pension_employer =
              Round2(DecMul(Round2(DecMul(SumOfPensionable(salary_structure),
                                          FactorOf(salary_structure))),
                            Dec(10, -2)))

\* the statement of C6 for every days_worked other than 0
C6_PensionOnProratedPensionableExceptZero ==
    (Returned /\ salary_structure.days_worked # Some(0)) =>
        /\ result.pension_employee =
              Round2(DecMul(Round2(DecMul(SumOfPensionable(salary_structure),
                                          FactorOf(salary_structure))),
                            Dec(8, -2)))
        /\ result.pension_employer =
              Round2(DecMul(Round2(DecMul(SumOfPensionable(salary_structure),
                                          FactorOf(salary_structure))),
                            Dec(10, -2)))

\* C7: total_deductions is pension_employee + nhf + paye + loan_repayment +
\* other_deductions, where loan_repayment and other_deductions are the
\* inputs as given, neither prorated nor rounded, and the employer's pension
\* is not part of the sum.
C7_TotalDeductionsIsSum ==
    Returned =>
        /\ result.loan_repayment = salary_structure.loan_repayment
        /\ result.other_deductions = salary_structure.other_deductions
        /\ result.total_deductions =
              DecAdd(result.pension_employee,
                     DecAdd(result.nhf,
                            DecAdd(result.paye,
                                   DecAdd(salary_structure.loan_repayment,
                                          salary_structure.other_deductions))))

\* a returned prorated call with a loan repayment, other deductions that
\* have a fraction of a kobo, and an employer's pension that is not zero
C7_ProratedWithLoanAndDeductions ==
    /\ Returned
    /\ result.is_prorated
    /\ Value(salary_structure.days_worked) > 0
    /\ salary_structure.loan_repayment # DecZero
    /\ Round2(salary_structure.other_deductions) # salary_structure.other_deductions
    /\ result.pension_employer # DecZero
    /\ result.paye # DecZero

\* the prorated basic of a returned call: basic x days_worked / total_days
\* when the call is prorated, basic otherwise
ProratedBasic(ss) ==
    IF DaysWorkedShort(ss) THEN DecMul(ss.basic_salary, DaysRatio(ss))
    ELSE ss.basic_salary

\* C8: with B the prorated basic, nhf is 0 and the notes hold the "NHF not
\* applicable" note exactly when B < 3000; otherwise nhf is
\* round2(B x 0.025) and the note is absent.  A full-month basic of 3000 or
\* more whose prorated value is under 3000 gives nhf = 0.
C8_NhfThresholdOnProratedBasic ==
    Returned =>
        IF DecLt(ProratedBasic(salary_structure), Dec(3000, 0))
        THEN /\ result.nhf = DecZero
             /\ HasNote(result.calculation_notes, NoteNhf)
        ELSE /\ result.nhf = Round2(DecMul(ProratedBasic(salary_structure), Dec(25, -3)))
             /\ ~HasNote(result.calculation_notes, NoteNhf)

\* a returned prorated call whose full-month basic is 3000 or more and whose
\* prorated basic is under 3000
C8_ProratedBelowThreshold ==
    /\ Returned
    /\ result.is_prorated
    /\ DecLe(Dec(3000, 0), salary_structure.basic_salary)
    /\ DecLt(ProratedBasic(salary_structure), Dec(3000, 0))
    /\ result.nhf = DecZero
    /\ HasNote(result.calculation_notes, NoteNhf)

\* C9: rent_relief is min(annual_gross x 0.20, 500000), so it never exceeds
\* 500000.
C9_RentReliefCapped ==
    Returned =>
        /\ result.rent_relief =
              DecMin(DecMul(result.annual_gross, Dec(20, -2)), Dec(500000, 0))
        /\ DecLe(result.rent_relief, Dec(500000, 0))

\* a returned call where 20% of the annual gross is over the cap
C9_CapReached ==
    /\ Returned
    /\ DecLt(Dec(500000, 0), DecMul(result.annual_gross, Dec(20, -2)))
    /\ result.rent_relief = Dec(500000, 0)

\* annual_gross - 12 x pension_employee - 12 x nhf - rent_relief
PreFloorTaxable(r) ==
    DecSub(DecSub(DecSub(r.annual_gross, DecMul(Dec(12, 0), r.pension_employee)),
                  DecMul(Dec(12, 0), r.nhf)),
           r.rent_relief)

\* C10: taxable_income is never negative; whenever annual_gross -
\* 12 x pension_employee - 12 x nhf - rent_relief is negative,
\* taxable_income, annual_paye and paye are all 0 and the notes hold
\* "Taxable income is zero after deductions".
C10_TaxableIncomeFloored ==
    Returned =>
        /\ DecLe(DecZero, result.taxable_income)
        /\ DecLt(PreFloorTaxable(result), DecZero) =>
              /\ result.taxable_income = DecZero
              /\ result.annual_paye = DecZero
              /\ result.paye = DecZero
              /\ HasNote(result.calculation_notes, NoteTaxableZero)

\* a returned call whose pre-floor taxable amount is negative
C10_NegativePreFloor ==
    /\ Returned
    /\ DecLt(PreFloorTaxable(result), DecZero)
    /\ result.taxable_income = DecZero

(***************************************************************************)
(* A call of calculate_annual_paye on its own: the engine is constructed,  *)
(* a caller holds an annual taxable income, and the call returns the tax.  *)
(* The income is the local taxable_income_annual and the value returned    *)
(* is the local paye_annual; no salary structure and no result exist.      *)
(***************************************************************************)
\* the number of steps of PayeIncomeStep tried above each boundary
MaxIncomeSteps == 6

\* the cumulative upper ends of the brackets, and zero
PayeBoundaries ==
    { DecZero, Dec(800000, 0), Dec(3000000, 0), Dec(12000000, 0),
      Dec(25000000, 0), Dec(50000000, 0), Dec(1049999999, 0) }

PayeIncomeStep == Dec(12345678, -2)

\* the distances from a boundary tried
PayeOffsets ==
    { Dec(-1, 0), Dec(-1, -2), Dec(1, -2), Dec(3, -2) }
        \cup { DecMul(DecOfInt(k), PayeIncomeStep) : k \in 0..MaxIncomeSteps }

PayeIncomes ==
    { DecAdd(b, o) : b \in PayeBoundaries, o \in PayeOffsets }

PayeInit ==
    /\ calculation_precision = Dec(1, -2)
    /\ salary_structure = <<>>
    /\ period_start = ""
    /\ period_end = ""
    /\ locals \in { [taxable_income_annual |-> income] : income \in PayeIncomes }
    /\ result = NoResult
    /\ pc = "paye"
    /\ OutsideIdle

CallAnnualPaye ==
    /\ pc = "paye"
    /\ locals' = [paye_annual |-> calculate_annual_paye(locals.taxable_income_annual)]
                    @@ locals
    /\ pc' = "paye_returned"
    /\ UNCHANGED Frame

PayeNext == CallAnnualPaye

PayeSpec == PayeInit /\ [][PayeNext]_vars

PayeReturned == pc = "paye_returned"

\* the tax on an income up to 50000000, bracket by bracket from the
\* cumulative boundaries and their reference sums
ReferenceTaxTo50M(income) ==
    IF DecLe(income, Dec(800000, 0)) THEN DecZero
    ELSE IF DecLe(income, Dec(3000000, 0))
    THEN DecMul(Dec(15, -2), DecSub(income, Dec(800000, 0)))
    ELSE IF DecLe(income, Dec(12000000, 0))
    THEN DecAdd(Dec(330000, 0), DecMul(Dec(18, -2), DecSub(income, Dec(3000000, 0))))
    ELSE IF DecLe(income, Dec(25000000, 0))
    THEN DecAdd(Dec(1950000, 0), DecMul(Dec(21, -2), DecSub(income, Dec(12000000, 0))))
    ELSE DecAdd(Dec(4680000, 0), DecMul(Dec(23, -2), DecSub(income, Dec(25000000, 0))))

\* 10430000 + 0.25 x (income - 50000000)
ReferenceTaxAbove50M(income) ==
    DecAdd(Dec(10430000, 0), DecMul(Dec(25, -2), DecSub(income, Dec(50000000, 0))))

C12_TopRateWithoutLimit ==
    (PayeReturned /\ DecLe(Dec(50000000, 0), locals.taxable_income_annual)) =>
        locals.paye_annual = Round2(ReferenceTaxAbove50M(locals.taxable_income_annual))

\* the statement of C12 for the incomes that the widths of the six brackets
\* cover, 800000 + ... + 25000000 + 999999999 = 1049999999
C12_TopRateWithinLastBracket ==
    (/\ PayeReturned
     /\ DecLe(Dec(50000000, 0), locals.taxable_income_annual)
     /\ DecLe(locals.taxable_income_annual, Dec(1049999999, 0))) =>
        locals.paye_annual = Round2(ReferenceTaxAbove50M(locals.taxable_income_annual))

(***************************************************************************)
(* Further properties of a call of calculate_payroll that has ended.       *)
(***************************************************************************)
\* C13: paye is round2(annual_paye / 12) when the call is not prorated, and
\* round2(round2(annual_paye / 12) x days_worked / total_days) when it is.
C13_MonthlyPayeProrated ==
    Returned =>
        IF DaysWorkedShort(salary_structure)
        THEN result.paye =
                Round2(DecMul(Round2(DecDiv(result.annual_paye, Dec(12, 0))),
                              DaysRatio(salary_structure)))
        ELSE result.paye = Round2(DecDiv(result.annual_paye, Dec(12, 0)))

\* a returned prorated call with a monthly PAYE that the proration reduced
C13_ProratedPayePaid ==
    /\ Returned
    /\ result.is_prorated
    /\ Value(salary_structure.days_worked) > 0
    /\ DecLt(DecZero, result.paye)
    /\ DecLt(result.paye, Round2(DecDiv(result.annual_paye, Dec(12, 0))))

\* C14: a call with days_worked = total_days returns a result equal in
\* every field (amounts, is_prorated = false, notes) to the result of the
\* same structure with days_worked absent.
C14_FullMonthEqualsAbsent ==
    (Returned /\ salary_structure.days_worked = Some(salary_structure.total_days)) =>
        /\ result = calculate_payroll(WithoutDaysWorked(salary_structure),
                                      period_start, period_end)
        /\ ~result.is_prorated

\* a returned call with days_worked = total_days = 30 that pays tax
C14_FullMonthWorked ==
    /\ Returned
    /\ salary_structure.days_worked = Some(30)
    /\ salary_structure.total_days = 30
    /\ DecLt(DecZero, result.paye)
    /\ DecLt(DecZero, result.nhf)

\* basic 200000, housing 100000, transport 50000, other allowances 50000,
\* nothing else and no days_worked
IsFixtureA(ss) ==
    /\ ss.basic_salary = Dec(200000, 0)
    /\ ss.housing_allowance = Dec(100000, 0)
    /\ ss.transport_allowance = Dec(50000, 0)
    /\ ss.other_allowances = Dec(50000, 0)
    /\ ss.meal_allowance = DecZero
    /\ ss.utility_allowance = DecZero
    /\ ss.bonus = DecZero
    /\ ss.overtime = DecZero
    /\ ss.loan_repayment = DecZero
    /\ ss.other_deductions = DecZero
    /\ ss.days_worked = None

\* C15: for fixture A the call returns gross_salary 400000, pension_employee
\* 28000, nhf 5000, annual_gross 4800000, rent_relief 500000, taxable_income
\* 3904000, annual_paye 492720, paye 41060, total_deductions 74060 and
\* net_salary 325940.
C15_FixtureA ==
    (Returned /\ IsFixtureA(salary_structure)) =>
        /\ result.gross_salary = Dec(400000, 0)
        /\ result.pension_employee = Dec(28000, 0)
        /\ result.nhf = Dec(5000, 0)
        /\ result.annual_gross = Dec(4800000, 0)
        /\ result.rent_relief = Dec(500000, 0)
        /\ result.taxable_income = Dec(3904000, 0)
        /\ result.annual_paye = Dec(492720, 0)
        /\ result.paye = Dec(41060, 0)
        /\ result.total_deductions = Dec(74060, 0)
        /\ result.net_salary = Dec(325940, 0)

\* a returned call on fixture A
C15_FixtureAReturned ==
    /\ Returned
    /\ IsFixtureA(salary_structure)
    /\ result.net_salary = Dec(325940, 0)

\* C19: calculate_payroll has no error path: for every input, negative
\* amounts, days_worked > total_days, negative days_worked and
\* total_days <= 0 included, the call returns and never raises.
C19_NeverRaises ==
    pc # "raised"

\* days_worked is present and greater than a positive total_days
DaysWorkedOver(ss) ==
    /\ DaysWorkedPresent(ss)
    /\ ss.total_days > 0
    /\ Value(ss.days_worked) > ss.total_days

\* C20 as stated: when days_worked > total_days (total_days > 0) the factor
\* days_worked / total_days >= 1 is applied, so that gross_salary is
\* round2(full sum x days_worked / total_days).
C20_GrossScaledUp ==
    (Returned /\ DaysWorkedOver(salary_structure)) =>
        result.gross_salary =
            Round2(DecMul(SumOfEarnings(salary_structure), DaysRatio(salary_structure)))

\* C20 amended: when days_worked > total_days (total_days > 0) the input is
\* not rejected and no proration is applied: the call returns, gross_salary
\* is round2(full sum) and is_prorated is false.
C20_GrossNotScaled ==
    DaysWorkedOver(salary_structure) =>
        /\ pc # "raised"
        /\ Returned =>
              /\ result.gross_salary = Round2(SumOfEarnings(salary_structure))
              /\ ~result.is_prorated
              /\ ~HasNote(result.calculation_notes, NoteProrated(salary_structure))

\* a returned call with days_worked = 31 of 30 and a gross that is not zero
C20_OverworkedReturned ==
    /\ Returned
    /\ DaysWorkedOver(salary_structure)
    /\ DecLt(DecZero, result.gross_salary)
    /\ result.gross_salary = Round2(SumOfEarnings(salary_structure))

\* the fields of a result that echo the labels of the call
LabelFields == {"employee_id", "employee_name", "period_start", "period_end"}

\* a result without its label fields: the monetary fields, is_prorated and
\* calculation_notes
WithoutLabels(r) == [field \in (DOMAIN r) \ LabelFields |-> r[field]]

\* the salary structure ss under the id, name and employment type of who
Relabelled(ss, who) ==
    [ss EXCEPT !.employee_id = who[1], !.employee_name = who[2],
               !.employment_type = who[3]]

\* the labels every call is compared with
ReferenceLabels == <<"EMP001", "Ngozi Adeyemi", "full-time">>

\* C18: two calls whose inputs differ only in employment_type, employee id
\* and name, period_start or period_end return results that agree on every
\* monetary field, on is_prorated and on calculation_notes; only the echoed
\* id, name and period dates differ.  Every call is compared with the call
\* on the same amounts and days under the reference labels and the first
\* period, so any two calls that differ only in labels agree with each other.
C18_LabelsDoNotInterfere ==
    Returned =>
        /\ WithoutLabels(calculate_payroll(Relabelled(salary_structure, ReferenceLabels),
                                           "2026-01-01", "2026-01-31"))
              = WithoutLabels(result)
        /\ result.employee_id = salary_structure.employee_id
        /\ result.employee_name = salary_structure.employee_name
        /\ result.period_start = period_start
        /\ result.period_end = period_end

\* a returned call for the contract employee in the second period, with a
\* pension contribution and a note
C18_ContractCallReturned ==
    /\ Returned
    /\ salary_structure.employment_type = "contract"
    /\ period_start = "2026-02-01"
    /\ DecLt(DecZero, result.pension_employee)
    /\ result.calculation_notes # <<>>

(***************************************************************************)
(* Several callers on one engine.  Each caller makes calls of              *)
(* calculate_payroll one after the other, and the steps of the callers'    *)
(* calls interleave freely.  The engine (calculation_precision and the     *)
(* class constants) is shared; salary_structure, locals, result and pc     *)
(* hold one value for each caller, since every call has its own argument,  *)
(* local variables and returned object.                                    *)
(***************************************************************************)
\* the number of callers
NumCallers == 2

Callers == 1..NumCallers

\* the salary structures the callers pass: fixture A, a prorated month with
\* notes and deductions, a prorated month with a negative allowance, and one
\* on which the call raises
ConcStructures ==
    { EmployeeSalaryStructure(
          <<"EMP001", "Ngozi Adeyemi", "full-time">>,
          <<Dec(200000, 0), Dec(100000, 0), Dec(50000, 0)>>,
          <<DecZero, DecZero, Dec(50000, 0), DecZero, DecZero>>,
          <<DecZero, DecZero>>, None, 30),
      EmployeeSalaryStructure(
          <<"EMP002", "Chidi Okafor", "contract">>,
          <<Dec(22500, 0), DecZero, DecZero>>,
          <<Dec(10000005, -3), Dec(5000, 0), DecZero, Dec(20000, 0), Dec(75005, -1)>>,
          <<Dec(50000, 0), Dec(1234567, -3)>>, Some(4), 30),
      EmployeeSalaryStructure(
          <<"EMP002", "Chidi Okafor", "contract">>,
          <<Dec(150000, 0), Dec(75000, 0), Dec(25000, 0)>>,
          <<Dec(-400000, 0), DecZero, DecZero, DecZero, DecZero>>,
          <<DecZero, DecZero>>, Some(17), 31),
      EmployeeSalaryStructure(
          <<"EMP001", "Ngozi Adeyemi", "full-time">>,
          <<Dec(200000, 0), Dec(100000, 0), Dec(50000, 0)>>,
          <<DecZero, DecZero, DecZero, DecZero, DecZero>>,
          <<DecZero, DecZero>>, Some(-3), 0) }

\* the value of pc at which step n runs
PcOfStep ==
    <<"step1", "step2", "step3", "step4", "step5",
      "step6", "step7", "step8", "step9", "step10">>

\* the local variables after step n, from the local variables f before it
StepAt(n, ss, f) ==
    CASE n = 1 -> Step1(ss, f)
      [] n = 2 -> Step2(ss, f)
      [] n = 3 -> Step3(ss, f)
      [] n = 4 -> Step4(ss, f)
      [] n = 5 -> Step5(ss, f)
      [] n = 6 -> Step6(ss, f)
      [] n = 7 -> Step7(ss, f)
      [] n = 8 -> Step8(ss, f)
      [] n = 9 -> Step9(ss, f)
      [] n = 10 -> Step10(ss, f)

ConcInit ==
    /\ calculation_precision = Dec(1, -2)
    /\ salary_structure \in [Callers -> ConcStructures]
    /\ period_start = "2026-01-01"
    /\ period_end = "2026-01-31"
    /\ locals = [c \in Callers |-> <<>>]
    /\ result = [c \in Callers |-> NoResult]
    /\ pc = [c \in Callers |-> "step1"]
    /\ OutsideIdle

\* caller c, whose last call has ended, calls again
ConcCall(c) ==
    /\ pc[c] \in {"returned", "raised"}
    /\ \E ss \in ConcStructures :
          salary_structure' = [salary_structure EXCEPT ![c] = ss]
    /\ locals' = [locals EXCEPT ![c] = <<>>]
    /\ result' = [result EXCEPT ![c] = NoResult]
    /\ pc' = [pc EXCEPT ![c] = "step1"]
    /\ UNCHANGED <<calculation_precision, period_start, period_end, Outside>>

ConcRaise(c) ==
    /\ pc[c] = "step1"
    /\ RaisesDivisionByZero(salary_structure[c])
    /\ pc' = [pc EXCEPT ![c] = "raised"]
    /\ UNCHANGED <<locals, Frame>>

\* the call of caller c runs its next step, which also sets
\* calculation_precision to whole naira for the length of steps 3 to 7
ConcRun_with_scratch_precision(c) ==
    \E n \in 1..10 :
        /\ pc[c] = PcOfStep[n]
        /\ n = 1 => ~RaisesDivisionByZero(salary_structure[c])
        /\ locals' = [locals EXCEPT ![c] = StepAt(n, salary_structure[c], locals[c])]
        /\ pc' = [pc EXCEPT ![c] = IF n = 10 THEN "return" ELSE PcOfStep[n + 1]]
        /\ calculation_precision' =
              IF n = 2 THEN Dec(1, 0) ELSE IF n = 7 THEN Dec(1, -2)
              ELSE calculation_precision
        /\ UNCHANGED <<salary_structure, period_start, period_end, result, Outside>>

\* the call of caller c runs its next step
ConcRun(c) ==
    \E n \in 1..10 :
        /\ pc[c] = PcOfStep[n]
        /\ n = 1 => ~RaisesDivisionByZero(salary_structure[c])
        /\ locals' = [locals EXCEPT ![c] = StepAt(n, salary_structure[c], locals[c])]
        /\ pc' = [pc EXCEPT ![c] = IF n = 10 THEN "return" ELSE PcOfStep[n + 1]]
        /\ UNCHANGED Frame

\* the call of caller c returns a result whose calculation_notes is one list
\* held by every result returned so far
ConcReturn_sharing_notes(c) ==
    /\ pc[c] = "return"
    /\ result' =
          [d \in Callers |->
              IF d = c
              THEN PayrollResult(salary_structure[c], period_start, period_end, locals[c])
              ELSE IF pc[d] = "returned"
              THEN [result[d] EXCEPT !.calculation_notes = locals[c].notes]
              ELSE result[d]]
    /\ pc' = [pc EXCEPT ![c] = "returned"]
    /\ UNCHANGED <<calculation_precision, salary_structure, period_start, period_end, locals,
                   Outside>>

ConcReturn(c) ==
    /\ pc[c] = "return"
    /\ result' = [result EXCEPT ![c] =
          PayrollResult(salary_structure[c], period_start, period_end, locals[c])]
    /\ pc' = [pc EXCEPT ![c] = "returned"]
    /\ UNCHANGED <<calculation_precision, salary_structure, period_start, period_end, locals,
                   Outside>>

ConcNext ==
    \E c \in Callers :
        \/ ConcCall(c)
        \/ ConcRaise(c)
        \/ ConcRun(c)
        \/ ConcReturn(c)

ConcSpec == ConcInit /\ [][ConcNext]_vars

\* C16: in any sequence or interleaving of calls on one shared engine, each
\* call ends as it does when run alone: it raises exactly when the call
\* alone raises, and otherwise returns exactly the result the call alone
\* returns; two returned calls with identical inputs hold identical results.
C16_CallsIndependent ==
    /\ \A c \in Callers :
          /\ pc[c] = "raised" => RaisesDivisionByZero(salary_structure[c])
          /\ pc[c] = "returned" =>
                /\ ~RaisesDivisionByZero(salary_structure[c])
                /\ result[c] = calculate_payroll(salary_structure[c],
                                                 period_start, period_end)
    /\ \A c, d \in Callers :
          (/\ pc[c] = "returned"
           /\ pc[d] = "returned"
           /\ salary_structure[c] = salary_structure[d]) => result[c] = result[d]

\* two callers have returned from calls on different inputs with different
\* notes
C16_TwoCallsReturned ==
    /\ pc[1] = "returned"
    /\ pc[2] = "returned"
    /\ salary_structure[1] # salary_structure[2]
    /\ result[1].calculation_notes # result[2].calculation_notes
    /\ DecLt(DecZero, result[1].net_salary)

\* C17: calculate_payroll is free of side effects: a step of any call
\* leaves calculation_precision and the salary structure of every call in
\* progress as they are, and leaves every result already returned, its
\* calculation_notes included, as it is (no result shares its notes with
\* another call).  The class constants are definitions that no action
\* assigns.
C17_NoSideEffects ==
    [][/\ calculation_precision' = calculation_precision
       /\ \A c \in Callers :
             /\ pc[c] \notin {"returned", "raised"} =>
                   salary_structure'[c] = salary_structure[c]
             /\ (pc[c] = "returned" /\ pc'[c] = "returned") =>
                   result'[c] = result[c]]_vars

\* a caller has returned with notes while another call, which has already
\* recorded a different list of notes, is still running
C17_ReturnedWhileOtherRuns ==
    /\ pc[1] = "returned"
    /\ result[1].calculation_notes # <<>>
    /\ pc[2] = "step9"
    /\ locals[2].notes # result[1].calculation_notes

(***************************************************************************)
(* Properties of the amounts of a returned call.                           *)
(***************************************************************************)
\* x is a multiple of 0.01
IsWholeKobo(x) == Round2(x) = x

\* every monetary field of the salary structure is a multiple of 0.01
InputInWholeKobo(ss) ==
    \A field \in {"basic_salary", "housing_allowance", "transport_allowance",
                  "meal_allowance", "utility_allowance", "other_allowances",
                  "bonus", "overtime", "loan_repayment", "other_deductions"} :
        IsWholeKobo(ss[field])

\* C21: for every input whose monetary fields are multiples of 0.01, every
\* monetary field of the result (the eight earnings, gross_salary,
\* pension_employee, pension_employer, nhf, paye, total_deductions,
\* net_salary, annual_gross, rent_relief, taxable_income, annual_paye) is a
\* multiple of 0.01.
C21_ResultInWholeKobo ==
    (Returned /\ InputInWholeKobo(salary_structure)) =>
        \A field \in {"basic_salary", "housing_allowance", "transport_allowance",
                      "meal_allowance", "utility_allowance", "other_allowances",
                      "bonus", "overtime", "gross_salary", "pension_employee",
                      "pension_employer", "nhf", "paye", "total_deductions",
                      "net_salary", "annual_gross", "rent_relief",
                      "taxable_income", "annual_paye"} :
            IsWholeKobo(result[field])

\* the statement of C21 for every field but rent_relief and taxable_income
C21_ResultInWholeKoboExceptRelief ==
    (Returned /\ InputInWholeKobo(salary_structure)) =>
        \A field \in {"basic_salary", "housing_allowance", "transport_allowance",
                      "meal_allowance", "utility_allowance", "other_allowances",
                      "bonus", "overtime", "gross_salary", "pension_employee",
                      "pension_employer", "nhf", "paye", "total_deductions",
                      "net_salary", "annual_gross", "annual_paye"} :
            IsWholeKobo(result[field])

\* C23: is_prorated is true exactly when days_worked is present and
\* days_worked < total_days, and calculation_notes holds the note "Prorated
\* for <days_worked>/<total_days> days" exactly when is_prorated is true.
C23_IsProratedAndNote ==
    Returned =>
        /\ result.is_prorated <=> DaysWorkedShort(salary_structure)
        /\ result.is_prorated <=>
              \E i \in 1..Len(result.calculation_notes) :
                  result.calculation_notes[i][1] =
                      "Prorated for {days_worked}/{total_days} days"
        /\ result.is_prorated =>
              HasNote(result.calculation_notes,
                      <<"Prorated for {days_worked}/{total_days} days",
                        <<Value(salary_structure.days_worked),
                          salary_structure.total_days>> >>)

\* a returned call with days_worked = 0, prorated and noted as such
C23_ZeroDaysProrated ==
    /\ Returned
    /\ salary_structure.days_worked = Some(0)
    /\ result.is_prorated
    /\ result.calculation_notes[1] =
          <<"Prorated for {days_worked}/{total_days} days",
            <<0, salary_structure.total_days>> >>

\* C24: within one call a single proration factor is used by every step:
\* gross_salary, the pensionable income, the NHF base and the monthly paye
\* are all scaled by days_worked / total_days when is_prorated is true and
\* all left unscaled when it is false, for every days_worked, 0 and negative
\* values included.
C24_OneProrationFactor ==
    Returned =>
        IF result.is_prorated
        THEN /\ result.gross_salary =
                   Round2(DecMul(SumOfEarnings(salary_structure),
                                 DaysRatio(salary_structure)))
             /\ result.pension_employee =
                   Round2(DecMul(Round2(DecMul(SumOfPensionable(salary_structure),
                                               DaysRatio(salary_structure))),
                                 Dec(8, -2)))
             /\ result.nhf =
                   (IF DecLt(DecMul(salary_structure.basic_salary,
                                    DaysRatio(salary_structure)), Dec(3000, 0))
                    THEN DecZero
                    ELSE Round2(DecMul(DecMul(salary_structure.basic_salary,
                                              DaysRatio(salary_structure)),
                                       Dec(25, -3))))
             /\ result.paye =
                   Round2(DecMul(Round2(DecDiv(result.annual_paye, Dec(12, 0))),
                                 DaysRatio(salary_structure)))
        ELSE /\ result.gross_salary = Round2(SumOfEarnings(salary_structure))
             /\ result.pension_employee =
                   Round2(DecMul(Round2(SumOfPensionable(salary_structure)), Dec(8, -2)))
             /\ result.nhf =
                   (IF DecLt(salary_structure.basic_salary, Dec(3000, 0)) THEN DecZero
                    ELSE Round2(DecMul(salary_structure.basic_salary, Dec(25, -3))))
             /\ result.paye = Round2(DecDiv(result.annual_paye, Dec(12, 0)))

\* the statement of C24 for every days_worked other than 0
C24_OneProrationFactorExceptZero ==
    salary_structure.days_worked # Some(0) => C24_OneProrationFactor

\* every monetary field is >= 0 and days_worked is absent or
\* 0 < days_worked <= total_days
IsValidInput(ss) ==
    /\ \A field \in {"basic_salary", "housing_allowance", "transport_allowance",
                     "meal_allowance", "utility_allowance", "other_allowances",
                     "bonus", "overtime", "loan_repayment", "other_deductions"} :
          DecLe(DecZero, ss[field])
    /\ DaysWorkedPresent(ss) =>
          (0 < Value(ss.days_worked) /\ Value(ss.days_worked) <= ss.total_days)

\* C26: for every valid input the zero floor is never exercised:
\* annual_gross - 12 x pension_employee - 12 x nhf - rent_relief is >= 0,
\* the note "Taxable income is zero after deductions" does not appear and
\* taxable_income equals that difference.
C26_FloorUnusedOnValidInput ==
    (Returned /\ IsValidInput(salary_structure)) =>
        /\ DecLe(DecZero, PreFloorTaxable(result))
        /\ ~HasNote(result.calculation_notes, NoteTaxableZero)
        /\ result.taxable_income = PreFloorTaxable(result)

\* a returned call on a valid prorated input of a few kobo, where the
\* roundings weigh most
C26_SmallValidInput ==
    /\ Returned
    /\ IsValidInput(salary_structure)
    /\ result.is_prorated
    /\ DecLt(DecZero, result.gross_salary)
    /\ DecLt(result.gross_salary, Dec(1, 0))
    /\ result.taxable_income = PreFloorTaxable(result)

\* C27: for every valid input with loan_repayment = 0 and
\* other_deductions = 0 the statutory deductions never exceed the pay:
\* 0 <= total_deductions <= gross_salary and net_salary >= 0.
C27_StatutoryDeductionsWithinPay ==
    (/\ Returned
     /\ IsValidInput(salary_structure)
     /\ salary_structure.loan_repayment = DecZero
     /\ salary_structure.other_deductions = DecZero) =>
        /\ DecLe(DecZero, result.total_deductions)
        /\ DecLe(result.total_deductions, result.gross_salary)
        /\ DecLe(DecZero, result.net_salary)

\* a returned call on a valid prorated input without loan or other
\* deductions that pays pension, NHF and PAYE
C27_ProratedStatutoryDeductions ==
    /\ Returned
    /\ IsValidInput(salary_structure)
    /\ salary_structure.loan_repayment = DecZero
    /\ salary_structure.other_deductions = DecZero
    /\ result.is_prorated
    /\ DecLt(DecZero, result.pension_employee)
    /\ DecLt(DecZero, result.nhf)
    /\ DecLt(DecZero, result.paye)

\* C28: calculate_annual_paye is non-decreasing and bounded by the top
\* rate: for all 0 <= I1 <= I2, 0 <= paye(I1) <= paye(I2) and
\* paye(I2) <= round2(0.25 x I2); paye(I) = 0 for every I <= 800000.
C28_PayeMonotoneAndBounded ==
    PayeReturned =>
        /\ DecLe(DecZero, locals.taxable_income_annual) =>
              /\ DecLe(DecZero, locals.paye_annual)
              /\ DecLe(locals.paye_annual,
                       Round2(DecMul(Dec(25, -2), locals.taxable_income_annual)))
              /\ \A lower \in PayeIncomes :
                    (/\ DecLe(DecZero, lower)
                     /\ DecLe(lower, locals.taxable_income_annual)) =>
                        /\ DecLe(DecZero, calculate_annual_paye(lower))
                        /\ DecLe(calculate_annual_paye(lower), locals.paye_annual)
        /\ DecLe(locals.taxable_income_annual, Dec(800000, 0)) =>
              locals.paye_annual = DecZero

\* a returned call on an income above the widths of all brackets, which pays
\* the same tax as the income 1049999999 below it
C28_TaxLevelsOff ==
    /\ PayeReturned
    /\ DecLt(Dec(1049999999, 0), locals.taxable_income_annual)
    /\ locals.paye_annual = calculate_annual_paye(Dec(1049999999, 0))
    /\ DecLt(DecZero, locals.paye_annual)

(***************************************************************************)
(* Calls of _round_money on their own: the engine is constructed, a caller *)
(* holds an amount, rounds it, and rounds the value returned once more.    *)
(* The amount is the local amount; the values returned are the locals      *)
(* rounded and rounded_again.                                              *)
(***************************************************************************)
\* the amounts tried run from -MaxMills to MaxMills thousandths
MaxMills == 25

RoundAmounts ==
    { Dec(n, -3) : n \in (0 - MaxMills)..MaxMills }
        \cup { Dec(49, -4), Dec(50, -4), Dec(51, -4), Dec(-50, -4), Dec(-51, -4),
               Dec(3, 0), Dec(15, -1), Dec(3015, -2),
               Dec(10000005, -3), Dec(-10000005, -3), Dec(1234567, -3),
               DecAdd(Dec(2000000000, 0), Dec(5, -3)),
               DecAdd(Dec(2000000000, 0), Dec(4999, -6)),
               DecDiv(Dec(7, 0), Dec(30, 0)), DecDiv(Dec(17, 0), Dec(31, 0)) }

RoundInit ==
    /\ calculation_precision = Dec(1, -2)
    /\ salary_structure = <<>>
    /\ period_start = ""
    /\ period_end = ""
    /\ locals \in { [amount |-> amount] : amount \in RoundAmounts }
    /\ result = NoResult
    /\ pc = "round"
    /\ OutsideIdle

CallRoundMoney ==
    /\ pc = "round"
    /\ locals' = [rounded |-> _round_money(locals.amount)] @@ locals
    /\ pc' = "round_returned"
    /\ UNCHANGED Frame

CallRoundMoneyAgain ==
    /\ pc = "round_returned"
    /\ locals' = [rounded_again |-> _round_money(locals.rounded)] @@ locals
    /\ pc' = "round_returned_again"
    /\ UNCHANGED Frame

RoundNext == CallRoundMoney \/ CallRoundMoneyAgain

RoundSpec == RoundInit /\ [][RoundNext]_vars

\* the magnitude of a
Magnitude(a) == [a EXCEPT !.neg = FALSE]

\* r is a multiple of 0.01 nearest to x, the one of greater magnitude when x
\* lies half way between two
IsNearestKobo(x, r) ==
    /\ r.e >= -2
    /\ DecLe(Magnitude(ExactDifference(x, r)), Dec(5, -3))
    /\ Magnitude(ExactDifference(x, r)) = Dec(5, -3) =>
          DecLt(Magnitude(x), Magnitude(r))

\* C25: _round_money returns the multiple of 0.01 nearest to its argument,
\* an exact half-kobo tie going up in magnitude (0.005 -> 0.01,
\* 0.004 -> 0.00), and is idempotent: _round_money(_round_money(x)) =
\* _round_money(x).
C25_RoundHalfUpIdempotent ==
    /\ pc \in {"round_returned", "round_returned_again"} =>
          /\ IsNearestKobo(locals.amount, locals.rounded)
          /\ locals.amount = Dec(5, -3) => locals.rounded = Dec(1, -2)
          /\ locals.amount = Dec(4, -3) => locals.rounded = DecZero
    /\ pc = "round_returned_again" => locals.rounded_again = locals.rounded

\* a negative half-kobo tie rounded away from zero, then rounded again
C25_NegativeTieRounded ==
    /\ pc = "round_returned_again"
    /\ locals.amount = Dec(-15, -3)
    /\ locals.rounded = Dec(-2, -2)
    /\ locals.rounded_again = Dec(-2, -2)

(***************************************************************************)
(* generate_payslip.  The text is the sequence of its lines; a line made   *)
(* from a value is the pair of its label and the formatted value.          *)
(***************************************************************************)
\* the clock is let run this many minutes
MaxClock == 3

\* f"{amount:,.2f}" after the currency sign: amount rounded to two places with
\* the context's rounding, ROUND_HALF_EVEN, as sign, whole naira and kobo
fmt(amount) ==
    LET q == IF amount.e >= -2 THEN amount
             ELSE DecNorm(amount.neg,
                          NatRound(amount.c, -2 - amount.e, "ROUND_HALF_EVEN"), -2)
        dm == NatDivMod(NatMulPow10(q.c, q.e + 2), 100)
    IN  [sign |-> IF q.neg THEN "-" ELSE "", naira |-> NatToInt(dm.q), kobo |-> dm.r]

\* d.strftime('%d %b %Y') for the dates of PeriodInputs
strftime_d_b_Y(d) ==
    CASE d = "2026-01-01" -> "01 Jan 2026"
      [] d = "2026-01-31" -> "31 Jan 2026"
      [] d = "2026-02-01" -> "01 Feb 2026"
      [] d = "2026-02-28" -> "28 Feb 2026"

\* now.strftime('%d %b %Y %H:%M') for a clock that starts at midnight of
\* 2 November 2026
strftime_d_b_Y_H_M(now) ==
    <<"02 Nov 2026", (now \div 60) % 24, now % 60>>

\* the lines generate_payslip appends for the notes
PayslipNotes(r) ==
    IF r.calculation_notes = <<>> THEN <<>>
    ELSE <<"", "NOTES:">> \o [i \in 1..Len(r.calculation_notes) |-> <<"  * ", r.calculation_notes[i]>>]

\* generate_payslip(result) called when datetime.now() is now
generate_payslip(r, now) ==
    << "============",
       <<"PAYSLIP - ", r.employee_name>>,
       <<"Employee ID: ", r.employee_id>>,
       <<"Period: ", strftime_d_b_Y(r.period_start), " - ", strftime_d_b_Y(r.period_end)>>,
       "============",
       "",
       "EARNINGS:",
       <<"  Basic Salary:", fmt(r.basic_salary)>>,
       <<"  Housing Allowance:", fmt(r.housing_allowance)>>,
       <<"  Transport Allowance:", fmt(r.transport_allowance)>>,
       <<"  Meal Allowance:", fmt(r.meal_allowance)>>,
       <<"  Utility Allowance:", fmt(r.utility_allowance)>>,
       <<"  Other Allowances:", fmt(r.other_allowances)>>,
       <<"  Bonus:", fmt(r.bonus)>>,
       <<"  Overtime:", fmt(r.overtime)>>,
       "  ----------",
       <<"  GROSS SALARY:", fmt(r.gross_salary)>>,
       "",
       "DEDUCTIONS:",
       <<"  Pension (8%):", fmt(r.pension_employee)>>,
       <<"  NHF (2.5%):", fmt(r.nhf)>>,
       <<"  PAYE Tax:", fmt(r.paye)>>,
       <<"  Loan Repayment:", fmt(r.loan_repayment)>>,
       <<"  Other Deductions:", fmt(r.other_deductions)>>,
       "  ----------",
       <<"  TOTAL DEDUCTIONS:", fmt(r.total_deductions)>>,
       "",
       "============",
       <<"NET SALARY:", fmt(r.net_salary)>>,
       "============",
       "",
       "EMPLOYER CONTRIBUTIONS:",
       <<"  Pension (10%):", fmt(r.pension_employer)>>,
       "",
       "TAX CALCULATION SUMMARY:",
       <<"  Annual Gross Income:", fmt(r.annual_gross)>>,
       <<"  Rent Relief (20%):", fmt(r.rent_relief)>>,
       <<"  Annual Taxable Income:", fmt(r.taxable_income)>>,
       <<"  Annual PAYE Tax:", fmt(r.annual_paye)>>,
       "" >>
    \o (IF r.is_prorated THEN <<"* Salary prorated for partial month">> ELSE <<>>)
    \o PayslipNotes(r)
    \o << "", "============", <<"Generated: ", strftime_d_b_Y_H_M(now)>>, "============" >>

\* the results payslips are generated for
PayslipResults ==
    { calculate_payroll(ss, period[1], period[2]) :
        ss \in { s \in ConcStructures : ~RaisesDivisionByZero(s) },
        period \in PeriodInputs }

PayslipInit ==
    /\ calculation_precision = Dec(1, -2)
    /\ salary_structure = <<>>
    /\ period_start = ""
    /\ period_end = ""
    /\ locals = <<>>
    /\ result \in PayslipResults
    /\ pc = "payslip"
    /\ OutsideIdle

\* a minute passes
Tick ==
    /\ clock < MaxClock
    /\ clock' = clock + 1
    /\ UNCHANGED <<calculation_precision, salary_structure, period_start, period_end,
                   locals, result, pc, payslips, message, reply, company, user,
                   employees, payroll_runs, audit_log, conv>>

\* generate_payslip is called with the result, for the first or the second time
CallGeneratePayslip ==
    /\ pc = "payslip"
    /\ Len(payslips) < 2
    /\ payslips' = Append(payslips, generate_payslip(result, clock))
    /\ UNCHANGED <<calculation_precision, salary_structure, period_start, period_end,
                   locals, result, pc, clock, message, reply, company, user,
                   employees, payroll_runs, audit_log, conv>>

PayslipNext == Tick \/ CallGeneratePayslip

PayslipSpec == PayslipInit /\ [][PayslipNext]_vars

\* C22: generate_payslip is a pure formatting function of its argument: two
\* calls with the same PayrollResult return the same text whenever they are
\* made, the call reads no state other than the result, and it leaves the
\* result unchanged.
C22_PayslipPureFunctionOfResult ==
    /\ Len(payslips) = 2 => payslips[1] = payslips[2]
    /\ \A n \in 1..Len(payslips), now \in 0..MaxClock :
          payslips[n] = generate_payslip(result, now)
    /\ result \in PayslipResults

\* the lines of a payslip text but the one that gives the time of the call
WithoutGenerated(text) ==
    [i \in 1..(Len(text) - 4) |-> text[i]] \o <<"", "============", "============">>

\* what holds of generate_payslip: the texts of two calls with the same result
\* differ in nothing but the "Generated:" line
C22_PayslipSameButGenerated ==
    \A n \in 1..Len(payslips) :
        WithoutGenerated(payslips[n]) = WithoutGenerated(generate_payslip(result, 0))

(***************************************************************************)
(* The message router of src/conversation.py for one phone.  A handler is  *)
(* an operator from the rows of the database to the rows it leaves and the *)
(* response it returns.  The messages are those of Messages and the        *)
(* intents the AI may detect those of Intents: registration, payroll,      *)
(* payslips and the PIN flow.  A response is the record of its kind and of *)
(* what it names; the amounts on a payslip are those of calculate_payroll. *)
(***************************************************************************)
\* the largest number of employees of a company
MaxEmployees == 9

\* the payroll runs of one conversation
MaxRuns == 1

\* the clock is let run to this many minutes between messages
MaxWait == 10

\* the phone the messages come from
Phone == "+2348030000001"

\* the rows a handler reads and writes
Db ==
    [company |-> company, user |-> user, employees |-> employees,
     payroll_runs |-> payroll_runs, audit_log |-> audit_log, conv |-> conv]

\* what a handler leaves and returns
Out(db, response) == [db |-> db, reply |-> response]

\* dict.get(key, default)
Get(d, key, default) == IF key \in DOMAIN d THEN d[key] ELSE default

\* an empty dict, or no data given
NoData == <<>>

\* text.upper() for the messages
upper(text) ==
    CASE text = "payroll" -> "PAYROLL"
      [] text = "hr@sawa.ng" -> "HR@SAWA.NG"
      [] OTHER -> text

\* int(text) for the messages made of digits
Numerals ==
    ("1" :> 1) @@ ("3" :> 3) @@ ("9" :> 9) @@ ("4321" :> 4321) @@ ("0000" :> 0)

\* text.isdigit()
isdigit(text) == text \in DOMAIN Numerals

\* re.match(r'^[^@\s]+@[^@\s]+\.[^@\s]+$', email) for the messages
validate_email(email) == email = "hr@sawa.ng"

\* get_conversation_state, then the row changed or made
set_conversation_state(db, state, data) ==
    IF db.conv = None
    THEN [db EXCEPT !.conv =
            Some([state |-> state, data |-> data, pin_verified_at |-> None])]
    ELSE [db EXCEPT !.conv =
            Some([Value(@) EXCEPT !.state = state, !.data = data @@ @])]

reset_conversation_state(db) ==
    IF db.conv = None THEN db
    ELSE [db EXCEPT !.conv =
            Some([state |-> "MENU", data |-> NoData, pin_verified_at |-> None])]

log_action(db, action) ==
    [db EXCEPT !.audit_log = @ \cup {action}]

\* bcrypt: the hash of a PIN matches that PIN and no other
hash_pin(pin) == <<"bcrypt", pin>>

verify_pin(pin, pin_hash) == pin_hash = hash_pin(pin)

\* timedelta(minutes=10)
PIN_TTL == 10

\* a PIN session taken to be open once the phone has a conversation row
is_pin_verified_by_any_row(db, now) ==
    db.conv # None

is_pin_verified(db, now) ==
    /\ db.conv # None
    /\ Value(db.conv).pin_verified_at # None
    /\ now - Value(Value(db.conv).pin_verified_at) < PIN_TTL

OWNER_ADMIN_ACTIONS ==
    {"ADD_EMPLOYEE", "PAYROLL", "LIST", "POST_JOB", "CANDIDATES", "PAYSLIP_ALL", "LEAVE_ALL"}

EMPLOYEE_ACTIONS == {"PAYSLIP_OWN", "LEAVE_OWN", "APPLY"}

PIN_REQUIRED_ACTIONS == {"PAYROLL", "PAYSLIP", "PAYSLIP_ALL"}

check_role(u, action) ==
    IF u = None THEN FALSE
    ELSE IF Value(u).role \in {"owner", "admin"} THEN TRUE
    ELSE Value(u).role = "employee" /\ action \in EMPLOYEE_ACTIONS

MENU_SHORTCUTS ==
    ("1" :> "REGISTER") @@ ("2" :> "ADD EMPLOYEE") @@ ("3" :> "PAYROLL") @@
    ("4" :> "LIST") @@ ("5" :> "POST JOB") @@ ("6" :> "CANDIDATES") @@
    ("7" :> "PAYSLIP") @@ ("8" :> "LEAVE")

show_menu == [kind |-> "menu"]

\* require_pin: whether it prompts for the PIN, and the rows it leaves
require_pin(db, action, now) ==
    IF action \notin PIN_REQUIRED_ACTIONS
    THEN [db |-> db, prompted |-> FALSE]
    ELSE IF db.user = None \/ Value(db.user).pin_hash = None
    THEN [db |-> db, prompted |-> FALSE]
    ELSE IF is_pin_verified(db, now)
    THEN [db |-> db, prompted |-> FALSE]
    ELSE [db |-> set_conversation_state(db, "PIN_VERIFY", [resume_action |-> action]),
          prompted |-> TRUE]

_build_payslip_text(emp) ==
    [kind |-> "payslip", employee_id |-> emp.employee_code, employee_name |-> emp.name]

\* [{'emp_code': ..., 'emp_name': ...} for ...]
payroll_data(emps) ==
    [i \in 1..Len(emps) |-> [emp_code |-> emps[i].employee_code, emp_name |-> emps[i].name]]

handle_payroll(db, now) ==
    IF db.company = None THEN Out(db, [kind |-> "not_registered"])
    ELSE IF ~check_role(db.user, "PAYROLL") THEN Out(db, [kind |-> "owners_only"])
    ELSE LET pin == require_pin(db, "PAYROLL", now)
             emps == db.employees
         IN  IF pin.prompted THEN Out(pin.db, [kind |-> "enter_pin"])
             ELSE IF emps = <<>> THEN Out(db, [kind |-> "no_employees"])
             ELSE LET run == [company_id |-> Value(db.company).id,
                              results |-> payroll_data(emps), run_by |-> Phone]
                      added == [db EXCEPT !.payroll_runs = Append(@, run)]
                      viewed == set_conversation_state(added, "PAYROLL_VIEW",
                                   [payroll_results |-> payroll_data(emps),
                                    company_id |-> Value(db.company).id])
                  IN  Out(log_action(viewed, "PAYROLL_RUN"),
                          [kind |-> "payroll", employees |-> payroll_data(emps),
                           reply_from |-> 1, reply_to |-> Len(emps)])

handle_payroll_detail(db, index) ==
    LET d == Value(db.conv).data
        payroll_results == Get(d, "payroll_results", <<>>)
    IN  IF index < 1 \/ index > Len(payroll_results)
        THEN Out(db, [kind |-> "not_a_valid_option", reply_to |-> Len(payroll_results)])
        ELSE LET emp_ref == payroll_results[index]
                 found == { i \in 1..Len(db.employees) :
                              db.employees[i].employee_code = emp_ref.emp_code }
             IN  IF found = {} THEN Out(db, [kind |-> "employee_not_found"])
                 ELSE Out(db, _build_payslip_text(db.employees[CHOOSE i \in found : TRUE]))

handle_payslip(db, now) ==
    IF /\ db.company # None
       /\ db.user # None
       /\ Value(db.user).role \in {"owner", "admin"}
    THEN LET pin == require_pin(db, "PAYSLIP", now)
             emps == db.employees
         IN  IF pin.prompted THEN Out(pin.db, [kind |-> "enter_pin"])
             ELSE IF emps = <<>> THEN Out(db, [kind |-> "no_employees"])
             ELSE IF Len(emps) = 1
             THEN Out(log_action(db, "VIEW_PAYSLIP"), _build_payslip_text(emps[1]))
             ELSE Out(set_conversation_state(db, "PAYROLL_VIEW",
                         [payroll_results |-> payroll_data(emps),
                          company_id |-> Value(db.company).id]),
                      [kind |-> "which_payslip", employees |-> payroll_data(emps),
                       reply_from |-> 1, reply_to |-> Len(emps)])
    ELSE LET own == IF db.user # None /\ Value(db.user).role = "employee"
                    THEN { i \in 1..Len(db.employees) : db.employees[i].phone = Phone }
                    ELSE {}
         IN  IF own # {}
             THEN Out(log_action(db, "VIEW_OWN_PAYSLIP"),
                      _build_payslip_text(db.employees[CHOOSE i \in own : \A j \in own : i <= j]))
             ELSE Out(db, [kind |-> "no_employee_record"])

\* the registration states of handle_state; any other state shows the menu
handle_state(db, text) ==
    LET s == Value(db.conv).state
        d == Value(db.conv).data
    IN  CASE s = "REG_NAME" ->
               Out(set_conversation_state(db, "REG_EMAIL", [name |-> text]),
                   [kind |-> "ask_email", name |-> text])
          [] s = "REG_EMAIL" ->
               IF validate_email(text)
               THEN Out(set_conversation_state(db, "REG_PIN", [email |-> text]),
                        [kind |-> "choose_pin"])
               ELSE Out(db, [kind |-> "not_an_email"])
          [] s = "REG_PIN" ->
               IF ~(isdigit(text) /\ Len(text) = 4)
               THEN Out(db, [kind |-> "pin_needs_four_digits"])
               ELSE IF "name" \notin DOMAIN d \/ "email" \notin DOMAIN d
               THEN Out(reset_conversation_state(db), [kind |-> "session_timed_out"])
               ELSE IF db.company # None
               THEN Out(reset_conversation_state(db), [kind |-> "already_registered"])
               ELSE LET created ==
                          [db EXCEPT
                             !.company = Some([id |-> "company-1", name |-> d.name,
                                               email |-> d.email, phone |-> Phone]),
                             !.user = Some([role |-> "owner", pin_hash |-> hash_pin(text)])]
                    IN  Out(reset_conversation_state(log_action(created, "REGISTER")),
                            [kind |-> "welcome", name |-> d.name])
          [] OTHER -> Out(db, show_menu)

\* the intents of intent_map
intent_map ==
    ("REGISTER" :> "REGISTER") @@ ("ADD_EMPLOYEE" :> "ADD EMPLOYEE") @@
    ("PAYROLL" :> "PAYROLL") @@ ("PAYSLIP" :> "PAYSLIP") @@ ("LEAVE" :> "LEAVE") @@
    ("LIST" :> "LIST") @@ ("POST_JOB" :> "POST JOB") @@
    ("VIEW_CANDIDATES" :> "CANDIDATES") @@ ("HELP" :> "HELP")

RECURSIVE handle_message(_, _, _, _)

handle_pin_verify(db, text, intent, now) ==
    IF db.user = None \/ Value(db.user).pin_hash = None
    THEN Out(reset_conversation_state(db), [kind |-> "no_pin_set_up"])
    ELSE IF verify_pin(text, Value(db.user).pin_hash)
    THEN LET d == Value(db.conv).data
             verified == [db EXCEPT !.conv =
                            Some([Value(@) EXCEPT !.pin_verified_at = Some(now)])]
             resume_action == Get(d, "resume_action", "MENU")
         IN  handle_message(log_action(verified, "PIN_VERIFIED"), resume_action, intent, now)
    ELSE Out(log_action(db, "PIN_FAILED"), [kind |-> "pin_does_not_match"])

\* handle_message for a text of Messages, intent being what detect_intent
\* returns if it is asked and now what the clock shows
handle_message(db, text, intent, now) ==
    LET command == upper(text)
    IN  IF command \in {"MENU", "START", "HELP", "HI", "HELLO", "HEY"}
        THEN Out(reset_conversation_state(db), show_menu)
        ELSE IF command = "CANCEL"
        THEN Out(reset_conversation_state(db), [kind |-> "cancelled"])
        ELSE IF command \in DOMAIN MENU_SHORTCUTS
        THEN handle_message(db, MENU_SHORTCUTS[command], intent, now)
        ELSE IF command = "REGISTER"
        THEN Out(set_conversation_state(db, "REG_NAME", NoData),
                 [kind |-> "ask_company_name"])
        ELSE IF command = "PAYROLL" THEN handle_payroll(db, now)
        ELSE IF command = "PAYSLIP" THEN handle_payslip(db, now)
        ELSE IF db.conv # None /\ Value(db.conv).state # "MENU"
        THEN IF Value(db.conv).state = "PAYROLL_VIEW" /\ isdigit(command)
             THEN handle_payroll_detail(db, Numerals[command])
             ELSE IF Value(db.conv).state = "PIN_VERIFY"
             THEN handle_pin_verify(db, text, intent, now)
             ELSE handle_state(db, text)
        ELSE IF intent = "HR_QUESTION" THEN Out(db, [kind |-> "hr_info"])
        ELSE IF intent \in DOMAIN intent_map
        THEN handle_message(db, intent_map[intent], intent, now)
        ELSE Out(db, show_menu)

\* the texts sent: commands, menu numbers and replies, the PIN 4321 and a
\* wrong PIN
Messages ==
    {"MENU", "CANCEL", "payroll", "PAYSLIP", "1", "3", "9", "4321", "0000"}

\* the exact commands of handle_message among the messages and intents
Commands ==
    {"MENU", "START", "HELP", "HI", "HELLO", "HEY", "CANCEL", "REGISTER", "PAYROLL", "PAYSLIP"}

\* what detect_intent may return for a text
Intents == {"UNKNOWN", "HR_QUESTION", "REGISTER", "PAYROLL", "PAYSLIP", "HELP"}

\* handle_message(text) comes to ask detect_intent: text is no command and no
\* flow is active
AsksIntent(db, text) ==
    /\ upper(text) \notin Commands
    /\ upper(text) \notin DOMAIN MENU_SHORTCUTS
    /\ db.conv = None \/ Value(db.conv).state = "MENU"

\* the Employee rows of a company of n employees
EmployeeRows(n) ==
    [i \in 1..n |-> [employee_code |-> <<"EMP", i>>, name |-> <<"Employee", i>>,
                     phone |-> <<"phone of", i>>]]

EmployeeCounts == {0, 1, MaxEmployees}

\* the phone is not registered, or is the owner's of a company, with or
\* without a PIN
ConvInit ==
    /\ calculation_precision = Dec(1, -2)
    /\ salary_structure = <<>>
    /\ period_start = ""
    /\ period_end = ""
    /\ locals = <<>>
    /\ result = NoResult
    /\ pc = "chat"
    /\ clock = 0
    /\ payslips = <<>>
    /\ message = ""
    /\ reply = NoReply
    /\ \/ company = None /\ user = None /\ employees = <<>>
       \/ /\ company = Some([id |-> "company-1", name |-> "Sawa Ltd",
                             email |-> "hr@sawa.ng", phone |-> Phone])
          /\ \E pin_hash \in {None, hash_pin("4321")} :
                user = Some([role |-> "owner", pin_hash |-> pin_hash])
          /\ \E n \in EmployeeCounts : employees = EmployeeRows(n)
    /\ payroll_runs = <<>>
    /\ audit_log = {}
    /\ conv = None

\* half the lifetime of a PIN session passes between two messages
Wait ==
    /\ pc = "chat"
    /\ clock < MaxWait
    /\ clock' = clock + PIN_TTL \div 2
    /\ UNCHANGED <<calculation_precision, salary_structure, period_start, period_end,
                   locals, result, pc, payslips, message, reply, company, user,
                   employees, payroll_runs, audit_log, conv>>

\* handle_message is called with text and returns
Receive(text) ==
    /\ pc = "chat"
    /\ \E intent \in IF AsksIntent(Db, text) THEN Intents ELSE {"UNKNOWN"} :
          LET out == handle_message(Db, text, intent, clock)
          IN  /\ Len(out.db.payroll_runs) <= MaxRuns
              /\ message' = text
              /\ reply' = out.reply
              /\ company' = out.db.company
              /\ user' = out.db.user
              /\ employees' = out.db.employees
              /\ payroll_runs' = out.db.payroll_runs
              /\ audit_log' = out.db.audit_log
              /\ conv' = out.db.conv
    /\ UNCHANGED <<calculation_precision, salary_structure, period_start, period_end,
                   locals, result, pc, clock, payslips>>

ConvNext ==
    \/ Wait
    \/ \E text \in Messages : Receive(text)

ConvSpec == ConvInit /\ [][ConvNext]_vars

\* this step is a call of handle_message, message' being its text
Handled == clock' = clock

\* the conversation is in state PAYROLL_VIEW after a payroll run and the text
\* handled in this step is a number of its list
NumberOfTheList ==
    /\ Handled
    /\ conv # None
    /\ Value(conv).state = "PAYROLL_VIEW"
    /\ payroll_runs # <<>>
    /\ isdigit(message')
    /\ Numerals[message'] \in 1..Len(Value(conv).data.payroll_results)

\* the response and the conversation of this step are the payslip of the
\* employee listed at the number sent and the conversation as it was
PayslipOfTheNumber ==
    LET emp_ref == Value(conv).data.payroll_results[Numerals[message']]
    IN  /\ reply' = [kind |-> "payslip", employee_id |-> emp_ref.emp_code,
                     employee_name |-> emp_ref.emp_name]
        /\ conv' = conv

\* C29: after a payroll run has left the conversation in state PAYROLL_VIEW
\* listing N employees, a message that is a number i with 1 <= i <= N returns
\* the payslip of the i-th listed employee and does not start any other flow
\* or change the conversation state.
C29_NumberShowsPayslip ==
    [][NumberOfTheList => PayslipOfTheNumber]_vars

\* what holds of the numbered replies: a number of the list that is not one
\* of the menu shortcuts 1 to 8 returns the payslip and changes nothing
C29_NumberAboveMenuShowsPayslip ==
    [][NumberOfTheList /\ message' \notin DOMAIN MENU_SHORTCUTS => PayslipOfTheNumber]_vars

\* the payslip of the ninth employee has been shown for the reply 9
C29_NinthPayslipShown ==
    /\ message = "9"
    /\ reply.kind = "payslip"
    /\ reply.employee_id = <<"EMP", 9>>

\* the user of the phone has a PIN set
UserHasPin == user # None /\ Value(user).pin_hash # None

\* conv.pin_verified_at, None without a row
PinVerifiedAt == IF conv = None THEN None ELSE Value(conv).pin_verified_at

\* the call of this step comes to handle_pin_verify with its text
ReachesPinVerify ==
    /\ Handled
    /\ conv # None
    /\ Value(conv).state = "PIN_VERIFY"
    /\ upper(message') \notin Commands
    /\ upper(message') \notin DOMAIN MENU_SHORTCUTS

\* C30: PIN gating over any sequence of messages: for a user who has a PIN
\* set, handle_payroll creates a PayrollRun and returns payroll figures only
\* if the conversation has pin_verified_at set by a successful
\* handle_pin_verify that has not since been cleared by
\* reset_conversation_state (MENU, HELP, CANCEL); a wrong PIN never sets
\* pin_verified_at and never runs payroll.
C30_PinGatesPayroll ==
    [][ /\ UserHasPin /\ (payroll_runs' # payroll_runs \/ (Handled /\ reply'.kind = "payroll")) =>
            /\ PinVerifiedAt' # None
            /\ clock - Value(PinVerifiedAt') < PIN_TTL
            /\ "PIN_VERIFIED" \in audit_log'
        /\ PinVerifiedAt' # None /\ PinVerifiedAt' # PinVerifiedAt =>
            /\ ReachesPinVerify
            /\ UserHasPin
            /\ verify_pin(message', Value(user).pin_hash)
            /\ PinVerifiedAt' = Some(clock)
        /\ Handled /\ upper(message') \in {"MENU", "HELP", "CANCEL"} =>
            PinVerifiedAt' = None
        /\ ReachesPinVerify /\ UserHasPin /\ ~verify_pin(message', Value(user).pin_hash) =>
            /\ PinVerifiedAt' = PinVerifiedAt
            /\ payroll_runs' = payroll_runs
            /\ reply'.kind = "pin_does_not_match"
      ]_vars

\* payroll has run for a user with a PIN who gave a wrong PIN and then the
\* right one
C30_PayrollRunAfterWrongThenRightPin ==
    /\ UserHasPin
    /\ payroll_runs # <<>>
    /\ reply.kind = "payroll"
    /\ {"PIN_FAILED", "PIN_VERIFIED"} \subseteq audit_log
    /\ PinVerifiedAt # None

====
